---------------------------- MODULE Spec2Model ----------------------------
(***************************************************************************)
(* Model of the meshery-istio adapter's operation dispatch                 *)
(* (src/istio/istio.go): Istio.ApplyOperation, the handler goroutines it   *)
(* launches, the verification (vet) producer/consumer pair and             *)
(* Istio.CreateKubeconfigs.                                                *)
(*                                                                         *)
(* Strings built with fmt.Sprintf are modelled as tuples of their parts;   *)
(* versions are naturals, 0 standing for the empty version string.         *)
(***************************************************************************)
EXTENDS Integers, Sequences, FiniteSets, TLC

(***************************************************************************)
(* Bounds of the model.                                                    *)
(***************************************************************************)
MaxVersions == 2   \* longest supported-version list of the catalog
MaxBatch == 2      \* longest kubeconfig batch of a request
MaxFeed == 3        \* records the verification producer emits at most
MaxComps == 2       \* most components of an OAM request
MaxRequests == 2    \* most calls of ApplyOperation in flight together

(***************************************************************************)
(* Operation names: the cases of the switch in ApplyOperation.             *)
(***************************************************************************)
IstioOperation == "istio"
SampleAppOperations == {"bookinfo", "httpbin", "imagehub", "emojivoto"}
SmiConformanceOperation == "smi_conformance"
PolicyOperations == {"deny-all-policy", "strict-mtls-policy", "mutual-mtls-policy", "disable-mtls-policy"}
CustomOperation == "custom"
LabelNamespace == "label-namespace"
AddonOperations == {"prometheus-addon", "grafana-addon", "kiali-addon", "jaeger-addon", "zipkin-addon"}
IstioVetOperation == "istio-vet"
EnvoyFilterOperation == "envoy-filter"

\* every name some case of the switch names
RecognizedOperations ==
    {IstioOperation, SmiConformanceOperation, CustomOperation, LabelNamespace,
     IstioVetOperation, EnvoyFilterOperation}
        \cup SampleAppOperations \cup PolicyOperations \cup AddonOperations

\* the case of the switch an operation name selects
OpClass(op) ==
    IF op = IstioOperation THEN "mesh"
    ELSE IF op \in SampleAppOperations THEN "sampleapp"
    ELSE IF op = SmiConformanceOperation THEN "smi"
    ELSE IF op \in PolicyOperations THEN "policy"
    ELSE IF op = CustomOperation THEN "custom"
    ELSE IF op = LabelNamespace THEN "label"
    ELSE IF op \in AddonOperations THEN "addon"
    ELSE IF op = IstioVetOperation THEN "vet"
    ELSE IF op = EnvoyFilterOperation THEN "envoyfilter"
    ELSE "default"

\* the names requests are drawn from: one per case, and one no case names
OperationNames ==
    {IstioOperation, "bookinfo", SmiConformanceOperation, "deny-all-policy",
     CustomOperation, LabelNamespace, "prometheus-addon", IstioVetOperation,
     EnvoyFilterOperation, "unknown-op"}


(***************************************************************************)
(* The operation catalog (adapter.Operations) held by istio.Config.        *)
(* A descriptor is modelled by its version list, its number of templates   *)
(* and one word (Name) standing for its description and additional         *)
(* properties; a name without descriptor reads as Go's zero value.         *)
(***************************************************************************)
Versions == 1..MaxVersions

\* supported-version lists: every list of distinct versions
VersionLists ==
    {vs \in UNION {[1..n -> Versions] : n \in 0..MaxVersions} :
        \A i, j \in DOMAIN vs : vs[i] = vs[j] => i = j}

\* operations[name] of a name the map does not hold: the zero adapter.Operation
ZeroOperation == [Versions |-> <<>>, Templates |-> 0, Name |-> ""]

\* the stored catalogs: unreadable, empty, or one descriptor per recognized name
Catalogs ==
    {[readable |-> FALSE, names |-> {}, versions |-> <<>>],
     [readable |-> TRUE, names |-> {}, versions |-> <<>>]}
        \cup {[readable |-> TRUE, names |-> RecognizedOperations, versions |-> vs] :
                vs \in VersionLists}

\* operations[opReq.OperationName] after GetObject filled the map
Descriptor(cat, op) ==
    IF op \in cat.names
    THEN [Versions |-> IF op = IstioOperation THEN cat.versions ELSE <<>>,
          Templates |-> 1,
          Name |-> op]
    ELSE ZeroOperation

(***************************************************************************)
(* Errors.  An error value is a tuple naming its constructor; Error(),     *)
(* GetCode, GetCause and GetRemedy are read off the value.                 *)
(***************************************************************************)
NoError == <<>>
ErrOpInvalid == <<"ErrOpInvalid">>
ErrFetchIstioVersions == <<"ErrFetchIstioVersions">>
ErrGetObject == <<"ErrGetObject">>
ErrCollaborator(fn) == <<"ErrCollaborator", fn>>
ErrUnmarshal(i) == <<"ErrUnmarshal", i>>
ErrSetObject(i, key) == <<"ErrSetObject", i, key>>
ErrIstioVet(details) == <<"ErrIstioVet", details>>
mergeErrors(errs) == <<"mergeErrors", errs>>

ErrorText(err) == <<"Error()", err>>
GetCode(err) == <<"GetCode", err>>
GetCause(err) == <<"GetCause", err>>
GetRemedy(err) == <<"GetRemedy", err>>

(***************************************************************************)
(* Kubeconfig payloads and CreateKubeconfigs.  A payload either fails      *)
(* yaml.Unmarshal, or parses and is written key by key; a SetObject may    *)
(* fail (failAt names its key).  The credential store is modelled by the   *)
(* ordered list of writes made to istio.KubeconfigHandler.                 *)
(***************************************************************************)
ObjectKeys == <<"preferences", "clusters", "users", "contexts">>

GoodPayload == [parses |-> TRUE, failAt |-> "none"]
BadPayload == [parses |-> FALSE, failAt |-> "none"]
HalfPayload == [parses |-> TRUE, failAt |-> "users"]
Payloads == {GoodPayload, BadPayload, HalfPayload}

Batches == UNION {[1..n -> Payloads] : n \in 0..MaxBatch}

\* the SetObject calls of one payload, up to and including a failing one
RECURSIVE ObjectWrites(_, _, _)
ObjectWrites(p, i, k) ==
    IF k > Len(ObjectKeys) THEN <<>>
    ELSE IF p.failAt = ObjectKeys[k] THEN <<>>
    ELSE <<[key |-> ObjectKeys[k], payload |-> i]>> \o ObjectWrites(p, i, k + 1)

\* a payload whose SetObject fails leaves nothing behind
PayloadWritesUndone(p, i) ==
    IF ~p.parses \/ p.failAt # "none" THEN <<>>
    ELSE <<[key |-> "kind", payload |-> i],
           [key |-> "apiVersion", payload |-> i],
           [key |-> "current-context", payload |-> i]>> \o ObjectWrites(p, i, 1)

\* the writes the loop body makes for payload i of the batch
PayloadWrites(p, i) ==
    IF ~p.parses THEN <<>>
    ELSE <<[key |-> "kind", payload |-> i],
           [key |-> "apiVersion", payload |-> i],
           [key |-> "current-context", payload |-> i]>> \o ObjectWrites(p, i, 1)

\* the error the loop body appends for payload i, if any
PayloadErrors(p, i) ==
    IF ~p.parses THEN <<ErrUnmarshal(i)>>
    ELSE IF p.failAt # "none" THEN <<ErrSetObject(i, p.failAt)>>
    ELSE <<>>

\* the loop leaves at the first payload that fails
RECURSIVE KubeconfigLoopBreaking(_, _)
KubeconfigLoopBreaking(kubeconfigs, i) ==
    IF i > Len(kubeconfigs) THEN [writes |-> <<>>, errs |-> <<>>]
    ELSE IF Len(PayloadErrors(kubeconfigs[i], i)) > 0
         THEN [writes |-> PayloadWrites(kubeconfigs[i], i),
               errs |-> PayloadErrors(kubeconfigs[i], i)]
    ELSE LET rest == KubeconfigLoopBreaking(kubeconfigs, i + 1)
         IN  [writes |-> PayloadWrites(kubeconfigs[i], i) \o rest.writes,
              errs |-> rest.errs]

\* for _, kubeconfig := range kubeconfigs: every error is followed by continue
RECURSIVE KubeconfigLoop(_, _)
KubeconfigLoop(kubeconfigs, i) ==
    IF i > Len(kubeconfigs) THEN [writes |-> <<>>, errs |-> <<>>]
    ELSE LET rest == KubeconfigLoop(kubeconfigs, i + 1)
         IN  [writes |-> PayloadWrites(kubeconfigs[i], i) \o rest.writes,
              errs |-> PayloadErrors(kubeconfigs[i], i) \o rest.errs]

\* only the first error of the batch is handed to mergeErrors
CreateKubeconfigsFirstError(kubeconfigs) ==
    LET l == KubeconfigLoop(kubeconfigs, 1)
    IN  [writes |-> l.writes,
         err |-> IF Len(l.errs) = 0 THEN NoError ELSE mergeErrors(<<l.errs[1]>>)]

\* a failing batch leaves nothing in the store
CreateKubeconfigsRollingBack(kubeconfigs) ==
    LET l == KubeconfigLoop(kubeconfigs, 1)
    IN  [writes |-> IF Len(l.errs) = 0 THEN l.writes ELSE <<>>,
         err |-> IF Len(l.errs) = 0 THEN NoError ELSE mergeErrors(l.errs)]

\* CreateKubeconfigs: the writes it makes and the error it returns
CreateKubeconfigs(kubeconfigs) ==
    LET l == KubeconfigLoop(kubeconfigs, 1)
    IN  [writes |-> l.writes,
         err |-> IF Len(l.errs) = 0 THEN NoError ELSE mergeErrors(l.errs)]

IsError(err) == Len(err) > 0

\* what istio.KubeconfigHandler holds under a key after the writes of log.  The
\* handler is a key-value store (ApplyOperation reads adapter.OperationsKey
\* back from such a store with GetObject): SetKey and SetObject are called with
\* a fixed key and the payload's own value, so a key holds the value of the
\* last payload written under it.
RECURSIVE Stored(_, _)
Stored(log, key) ==
    IF Len(log) = 0 THEN <<>>
    ELSE IF log[Len(log)].key = key THEN <<log[Len(log)].payload>>
    ELSE Stored(SubSeq(log, 1, Len(log) - 1), key)

\* the request whose write a key of the handler holds
RECURSIVE StoredBy(_, _)
StoredBy(log, key) ==
    IF Len(log) = 0 THEN <<>>
    ELSE IF log[Len(log)].key = key THEN <<log[Len(log)].request>>
    ELSE StoredBy(SubSeq(log, 1, Len(log) - 1), key)

(***************************************************************************)
(* Requests (adapter.OperationRequest).  Only the control-plane case reads *)
(* Version, so other requests are drawn with the empty version.            *)
(***************************************************************************)
RequestInputs ==
    {in \in [OperationName : OperationNames, Version : 0..MaxVersions,
              IsDeleteOperation : BOOLEAN, K8sConfigs : Batches] :
        in.OperationName # IstioOperation => in.Version = 0}

Namespace == "opReq.Namespace"

(***************************************************************************)
(* Event records (meshes.EventsResponse) and the adapter's Stream calls,   *)
(* which set the record's EventType and publish it.                        *)
(***************************************************************************)
NoText == <<>>

\* the placeholder text is the record's summary
InitialEventSummaryPlaceholder(opReq) ==
    [OperationId |-> opReq.OperationID,
     EventType |-> "INFO",
     Summary |-> <<"Operation is not supported">>,
     Details |-> NoText,
     ErrorCode |-> NoText,
     ProbableCause |-> NoText,
     SuggestedRemediation |-> NoText]

\* the record ApplyOperation builds before the switch
InitialEvent(opReq) ==
    [OperationId |-> opReq.OperationID,
     EventType |-> "INFO",
     Summary |-> <<"status.Deploying">>,
     Details |-> <<"Operation is not supported">>,
     ErrorCode |-> NoText,
     ProbableCause |-> NoText,
     SuggestedRemediation |-> NoText]

StreamErr(e, err) == [e EXCEPT !.EventType = "ERROR"]
StreamWarn(e, err) == [e EXCEPT !.EventType = "WARN"]
StreamInfo(e) == [e EXCEPT !.EventType = "INFO"]

\* the failure branch sets summary and details and leaves the envelope empty
WithErrorDetailsOnly(e, summary, err) ==
    [e EXCEPT !.Summary = summary, !.Details = ErrorText(err)]

\* the enrichment every handler applies on failure before StreamErr
WithError(e, summary, err) ==
    [e EXCEPT !.Summary = summary,
              !.Details = ErrorText(err),
              !.ErrorCode = GetCode(err),
              !.ProbableCause = GetCause(err),
              !.SuggestedRemediation = GetRemedy(err)]

\* the version the control-plane handler installs: the requested one when the
\* descriptor lists it, the last listed one otherwise
Contains(slice, ele) == \E i \in DOMAIN slice : slice[i] = ele

EffectiveVersionFirst(versions, requestedVersion) ==
    IF Contains(versions, requestedVersion) THEN requestedVersion ELSE versions[1]

EffectiveVersion(versions, requestedVersion) ==
    IF Contains(versions, requestedVersion)
    THEN requestedVersion
    ELSE versions[Len(versions)]

(***************************************************************************)
(* Collaborators (installIstio, installSampleApp, RunSMITest, applyPolicy, *)
(* applyCustomOperation, LoadNamespaceToMesh, installAddon,                *)
(* patchWithEnvoyFilter): each returns a status word and an error.         *)
(***************************************************************************)
CollaboratorOf(class) ==
    CASE class = "mesh" -> "installIstio"
      [] class = "sampleapp" -> "installSampleApp"
      [] class = "smi" -> "RunSMITest"
      [] class = "policy" -> "applyPolicy"
      [] class = "custom" -> "applyCustomOperation"
      [] class = "label" -> "LoadNamespaceToMesh"
      [] class = "addon" -> "installAddon"
      [] class = "envoyfilter" -> "patchWithEnvoyFilter"

CollaboratorResult(fn, del, ok) ==
    [stat |-> IF ok THEN (IF del THEN "removed" ELSE "installed")
                    ELSE (IF del THEN "removing" ELSE "installing"),
     err |-> IF ok THEN NoError ELSE ErrCollaborator(fn)]

\* calls[r] before the handler called anything
NoCall == [fn |-> "none", version |-> 0, del |-> FALSE, result |-> "none"]

(***************************************************************************)
(* The terminal record of each non-streaming handler.                      *)
(***************************************************************************)
\* "install"/"uninstall" of the addon handler, "enabled"/"removed" of the label handler
AddonVerb(del) == IF del THEN "uninstall" ELSE "install"
LabelVerb(del) == IF del THEN "removed" ELSE "enabled"

FailureSummary(class, opReq, desc, stat, version) ==
    CASE class = "mesh" -> <<"Error while", stat, "Istio service mesh", version>>
      [] class = "sampleapp" -> <<"Error while", stat, "Istio service mesh">>
      [] class = "smi" -> <<"Error while", "status.Running", desc.Name, "test">>
      [] class = "policy" -> <<"Error while", stat, "policy">>
      [] class = "custom" -> <<"Error while", stat, "custom operation">>
      [] class = "label" -> <<"Error while labeling", Namespace>>
      [] class = "addon" ->
            <<"Error while", AddonVerb(opReq.IsDeleteOperation), "ing", opReq.OperationName>>
      [] class = "envoyfilter" -> <<"Error while", stat, desc.Name, "application">>

\* the control-plane summary names the requested version, not the installed one
SuccessSummaryRequestedVersion(class, opReq, desc, stat, version) ==
    CASE class = "mesh" -> <<"Istio service mesh", opReq.Version, stat, "successfully">>
      [] class = "sampleapp" -> <<desc.Name, "application", stat, "successfully">>
      [] class = "smi" -> <<desc.Name, "test", "status.Completed", "successfully">>
      [] class = "policy" -> <<"Policy", "status.Deployed", "successfully">>
      [] class = "custom" -> <<"Manifest", "status.Deployed", "successfully">>
      [] class = "label" -> <<"Label updated on", Namespace, "namespace">>
      [] class = "addon" ->
            <<"Successfully", AddonVerb(opReq.IsDeleteOperation), "ed", opReq.OperationName>>
      [] class = "envoyfilter" -> <<desc.Name, "application", stat, "successfully">>

SuccessSummary(class, opReq, desc, stat, version) ==
    CASE class = "mesh" -> <<"Istio service mesh", version, stat, "successfully">>
      [] class = "sampleapp" -> <<desc.Name, "application", stat, "successfully">>
      [] class = "smi" -> <<desc.Name, "test", "status.Completed", "successfully">>
      [] class = "policy" -> <<"Policy", "status.Deployed", "successfully">>
      [] class = "custom" -> <<"Manifest", "status.Deployed", "successfully">>
      [] class = "label" -> <<"Label updated on", Namespace, "namespace">>
      [] class = "addon" ->
            <<"Successfully", AddonVerb(opReq.IsDeleteOperation), "ed", opReq.OperationName>>
      [] class = "envoyfilter" -> <<desc.Name, "application", stat, "successfully">>

SuccessDetails(class, opReq, desc, stat, version) ==
    CASE class = "mesh" -> <<"The Istio service mesh", version, "is now", stat>>
      [] class = "sampleapp" -> <<"The", desc.Name, "application is now", stat>>
      [] class = "smi" -> NoText
      [] class = "policy" -> NoText
      [] class = "custom" -> NoText
      [] class = "label" ->
            <<"ISTIO-INJECTION label", LabelVerb(opReq.IsDeleteOperation), "on",
              Namespace, "namespace">>
      [] class = "addon" ->
            <<"Successfully", AddonVerb(opReq.IsDeleteOperation), "ed",
              opReq.OperationName, "from the", Namespace, "namespace">>
      [] class = "envoyfilter" -> <<"The", desc.Name, "application is now", stat>>

\* the failure branch streams the enriched record as information
FailureEventAsInfo(class, opReq, desc, stat, version, err) ==
    StreamInfo(WithError(InitialEvent(opReq),
                         FailureSummary(class, opReq, desc, stat, version), err))

\* the failure branch of a handler: enrich the record, StreamErr, return
FailureEvent(class, opReq, desc, stat, version, err) ==
    StreamErr(WithError(InitialEvent(opReq),
                        FailureSummary(class, opReq, desc, stat, version), err), err)

\* the success branch of a handler: set summary and details, StreamInfo
SuccessEvent(class, opReq, desc, stat, version) ==
    StreamInfo([InitialEvent(opReq) EXCEPT
                    !.Summary = SuccessSummary(class, opReq, desc, stat, version),
                    !.Details = SuccessDetails(class, opReq, desc, stat, version)])

(***************************************************************************)
(* The verification feed: RunVet sends records on responseChan (capacity   *)
(* 1) and closes it; a record is told apart by its number in Details.      *)
(***************************************************************************)
\* make(chan *meshes.EventsResponse, 2)
ChanCapacityTwo == 1 + 1
ChanCapacity == 1
\* meshes.EventType: the three types the loop names, and one it does not
EventTypes == {"INFO", "WARN", "ERROR", "DEBUG"}

VetMessage(n, type) ==
    [OperationId |-> 0,
     EventType |-> type,
     Summary |-> <<"vet">>,
     Details |-> <<"vet finding", n>>,
     ErrorCode |-> NoText,
     ProbableCause |-> NoText,
     SuggestedRemediation |-> NoText]

\* chan: the records in the channel; hand: the record the consumer holds
\* between receiving it and streaming it; produced: every record sent so far
NoFeed == [chan |-> <<>>, hand |-> <<>>, closed |-> FALSE, produced |-> <<>>]

\* a warning is streamed as an error
ForwardWarnAsError(msg) ==
    CASE msg.EventType = "ERROR" -> StreamErr(msg, ErrIstioVet(msg.Details))
      [] msg.EventType = "WARN" -> StreamErr(msg, ErrIstioVet(msg.Details))
      [] OTHER -> StreamInfo(msg)

\* the error the loop hands to StreamErr or StreamWarn with msg: ErrIstioVet
\* of an error made of msg.Details; StreamInfo is handed none
ForwardError(msg) ==
    CASE msg.EventType = "ERROR" -> ErrIstioVet(msg.Details)
      [] msg.EventType = "WARN" -> ErrIstioVet(msg.Details)
      [] OTHER -> NoError

\* the body of the consumer's range loop: classify msg by its EventType and stream it
Forward(msg) ==
    CASE msg.EventType = "ERROR" -> StreamErr(msg, ErrIstioVet(msg.Details))
      [] msg.EventType = "WARN" -> StreamWarn(msg, ErrIstioVet(msg.Details))
      [] OTHER -> StreamInfo(msg)

(***************************************************************************)
(* ProcessOAM.  An OAMRequest carries the delete flag, the components and  *)
(* the configuration as text, and the kubeconfig payloads.  A component or *)
(* a configuration either parses or does not; the parsed components are    *)
(* named by their position in the request.  The messages the two phases    *)
(* return are the tokens "M1" (components) and "M2" (configuration); a     *)
(* string is the sequence of its tokens, "" the empty sequence.            *)
(***************************************************************************)
ComponentLists == UNION {[1..n -> BOOLEAN] : n \in 0..MaxComps}

OAMRequests ==
    [DeleteOp : BOOLEAN, OamComps : ComponentLists, OamConfig : BOOLEAN,
     K8sConfigs : Batches]

ZeroOAMRequest ==
    [DeleteOp |-> FALSE, OamComps |-> <<>>, OamConfig |-> FALSE, K8sConfigs |-> <<>>]

\* the loop leaves at the first component that does not parse
RECURSIVE ParseComponentsAborting(_, _)
ParseComponentsAborting(oamComps, i) ==
    IF i > Len(oamComps) THEN <<>>
    ELSE IF ~oamComps[i] THEN <<>>
    ELSE <<i>> \o ParseComponentsAborting(oamComps, i + 1)

\* the loop over oamReq.OamComps: the components that parse, in input order
RECURSIVE ParseComponents(_, _)
ParseComponents(oamComps, i) ==
    IF i > Len(oamComps) THEN <<>>
    ELSE (IF oamComps[i] THEN <<i>> ELSE <<>>) \o ParseComponents(oamComps, i + 1)

\* oam.ParseApplicationConfiguration: the configuration and the error it
\* returns; for a text that does not parse, the zero configuration and an error
ErrParseOAMConfig == <<"ErrParseOAMConfig">>
ParseApplicationConfiguration(oamConfig) ==
    [config |-> IF oamConfig THEN "parsed" ELSE "zero",
     err |-> IF oamConfig THEN NoError ELSE ErrParseOAMConfig]

ErrProcessOAM(err) == <<"ErrProcessOAM", err>>
ErrHandleComponents == <<"HandleComponents">>
ErrHandleApplicationConfiguration == <<"HandleApplicationConfiguration">>

\* the phase ProcessOAM runs first and the one it runs second
FirstPhaseAlwaysComponents(del) == "components"

FirstPhase(del) == IF del THEN "configuration" ELSE "components"

SecondPhase(del) ==
    IF FirstPhase(del) = "components" THEN "configuration" ELSE "components"

PhaseMessage(phase) == IF phase = "components" THEN <<"M1">> ELSE <<"M2">>
PhaseError(phase) ==
    IF phase = "components" THEN ErrHandleComponents
    ELSE ErrHandleApplicationConfiguration

\* msg1 + "\n" + msg2
Joined == PhaseMessage("components") \o <<"\n">> \o PhaseMessage("configuration")

NoOAM ==
    [pc |-> "idle", req |-> ZeroOAMRequest, comps |-> <<>>, trace |-> <<>>,
     msg |-> <<>>, err |-> NoError]

(***************************************************************************)
(* State.                                                                  *)
(***************************************************************************)
VARIABLES
    catalog,     \* the operations stored under adapter.OperationsKey in istio.Config
    requests,    \* the OperationRequests received so far, in order of arrival
    dispatch,    \* per request: where its ApplyOperation call is, and what it returned
    task,        \* per request: where its handler goroutine is
    calls,       \* per request: the collaborator call its handler made
    feeds,       \* per request: responseChan of the verification handler
    sink,        \* the records published to the event stream, in order
    kubeconfig,  \* the writes made to istio.KubeconfigHandler, in order
    crashed,     \* the process died of a goroutine's panic
    oam          \* the ProcessOAM call: its request, its position, what it returned

vars == <<catalog, requests, dispatch, task, calls, feeds, sink, kubeconfig, crashed, oam>>

Init ==
    /\ catalog \in Catalogs
    /\ requests = <<>>
    /\ dispatch = <<>>
    /\ task = <<>>
    /\ calls = <<>>
    /\ feeds = <<>>
    /\ sink = <<>>
    /\ kubeconfig = <<>>
    /\ crashed = FALSE
    /\ oam = NoOAM

\* a record on the event stream: who streamed it, the record, and the error
\* handed to StreamErr or StreamWarn with it (none for StreamInfo)
Published(r, e, err) == [by |-> r, event |-> e, with |-> err]

\* the writes CreateKubeconfigs makes for request r, as entries of kubeconfig
RECURSIVE WritesOf(_, _)
WritesOf(r, writes) ==
    IF Len(writes) = 0 THEN <<>>
    ELSE <<[request |-> r, key |-> Head(writes).key, payload |-> Head(writes).payload]>>
            \o WritesOf(r, Tail(writes))

(***************************************************************************)
(* ApplyOperation up to the end of its switch: what it returns early, or   *)
(* whether it launched a handler, and what it published itself.            *)
(***************************************************************************)
\* the switch is reached whatever CreateKubeconfigs returned
DispatchOutcomeIgnoringKubeconfigs(opReq, cat) ==
    IF ~cat.readable
    THEN [returned |-> TRUE, err |-> ErrGetObject, launch |-> FALSE, events |-> <<>>]
    ELSE IF OpClass(opReq.OperationName) = "default"
    THEN [returned |-> FALSE, err |-> NoError, launch |-> FALSE,
          events |-> <<StreamErr(InitialEvent(opReq), ErrOpInvalid)>>]
    ELSE [returned |-> FALSE, err |-> NoError, launch |-> TRUE, events |-> <<>>]

\* the switch is reached whatever GetObject returned
DispatchOutcomeIgnoringGetObject(opReq, cat) ==
    LET kc == CreateKubeconfigs(opReq.K8sConfigs)
    IN  IF IsError(kc.err)
        THEN [returned |-> TRUE, err |-> kc.err, launch |-> FALSE, events |-> <<>>]
        ELSE IF OpClass(opReq.OperationName) = "default"
        THEN [returned |-> FALSE, err |-> NoError, launch |-> FALSE,
              events |-> <<StreamErr(InitialEvent(opReq), ErrOpInvalid)>>]
        ELSE [returned |-> FALSE, err |-> NoError, launch |-> TRUE, events |-> <<>>]

\* a GetObject failure is streamed as an error record, not returned
DispatchOutcomeStreamingGetObject(opReq, cat) ==
    LET kc == CreateKubeconfigs(opReq.K8sConfigs)
    IN  IF IsError(kc.err)
        THEN [returned |-> TRUE, err |-> kc.err, launch |-> FALSE, events |-> <<>>]
        ELSE IF ~cat.readable \/ OpClass(opReq.OperationName) = "default"
        THEN [returned |-> FALSE, err |-> NoError, launch |-> FALSE,
              events |-> <<StreamErr(InitialEvent(opReq), ErrOpInvalid)>>]
        ELSE [returned |-> FALSE, err |-> NoError, launch |-> TRUE, events |-> <<>>]

\* the default case launches a goroutine like every other case
DispatchOutcomeLaunchingDefault(opReq, cat) ==
    LET kc == CreateKubeconfigs(opReq.K8sConfigs)
    IN  IF IsError(kc.err)
        THEN [returned |-> TRUE, err |-> kc.err, launch |-> FALSE, events |-> <<>>]
        ELSE IF ~cat.readable
        THEN [returned |-> TRUE, err |-> ErrGetObject, launch |-> FALSE, events |-> <<>>]
        ELSE [returned |-> FALSE, err |-> NoError, launch |-> TRUE, events |-> <<>>]

DispatchOutcome(opReq, cat) ==
    LET kc == CreateKubeconfigs(opReq.K8sConfigs)
    IN  IF IsError(kc.err)
        THEN [returned |-> TRUE, err |-> kc.err, launch |-> FALSE, events |-> <<>>]
        ELSE IF ~cat.readable
        THEN [returned |-> TRUE, err |-> ErrGetObject, launch |-> FALSE, events |-> <<>>]
        ELSE IF OpClass(opReq.OperationName) = "default"
        THEN [returned |-> FALSE, err |-> NoError, launch |-> FALSE,
              events |-> <<StreamErr(InitialEvent(opReq), ErrOpInvalid)>>]
        ELSE [returned |-> FALSE, err |-> NoError, launch |-> TRUE, events |-> <<>>]

RECURSIVE PublishAll(_, _)
PublishAll(r, events) ==
    IF Len(events) = 0 THEN <<>>
    ELSE <<Published(r, Head(events), ErrOpInvalid)>> \o PublishAll(r, Tail(events))

\* a call of ApplyOperation, from its entry to the end of the switch
ApplyOperation(in) ==
    /\ ~crashed
    /\ LET r == Len(requests) + 1
           opReq == [OperationName |-> in.OperationName,
                     Version |-> in.Version,
                     IsDeleteOperation |-> in.IsDeleteOperation,
                     K8sConfigs |-> in.K8sConfigs,
                     OperationID |-> r]
           out == DispatchOutcome(opReq, catalog)
       IN  /\ requests' = Append(requests, opReq)
           /\ kubeconfig' = kubeconfig \o WritesOf(r, CreateKubeconfigs(opReq.K8sConfigs).writes)
           /\ dispatch' = Append(dispatch,
                            [pc |-> IF out.returned THEN "returned" ELSE "switched",
                             err |-> out.err,
                             ctx |-> "live",
                             atCancel |-> 0,
                             todo |-> <<>>])
           /\ task' = Append(task, IF out.launch THEN "launched" ELSE "none")
           /\ sink' = sink \o PublishAll(r, out.events)
           /\ calls' = Append(calls, NoCall)
           /\ feeds' = Append(feeds, NoFeed)
    /\ UNCHANGED <<catalog, crashed>>
    /\ UNCHANGED oam

(***************************************************************************)
(* The same call in the steps another call can interleave with: the entry, *)
(* each SetKey/SetObject of CreateKubeconfigs on the one                   *)
(* istio.KubeconfigHandler every call shares, then the rest up to the end  *)
(* of the switch.  dispatch[r].todo lists the writes still to be made.     *)
(***************************************************************************)
ApplyOperationEnter(in) ==
    /\ ~crashed
    /\ Len(requests) < MaxRequests
    /\ LET r == Len(requests) + 1
           opReq == [OperationName |-> in.OperationName,
                     Version |-> in.Version,
                     IsDeleteOperation |-> in.IsDeleteOperation,
                     K8sConfigs |-> in.K8sConfigs,
                     OperationID |-> r]
       IN  /\ requests' = Append(requests, opReq)
           /\ dispatch' = Append(dispatch,
                            [pc |-> "ingesting",
                             err |-> NoError,
                             ctx |-> "live",
                             atCancel |-> 0,
                             todo |-> WritesOf(r, CreateKubeconfigs(opReq.K8sConfigs).writes)])
           /\ task' = Append(task, "none")
           /\ calls' = Append(calls, NoCall)
           /\ feeds' = Append(feeds, NoFeed)
    /\ UNCHANGED <<catalog, sink, kubeconfig, crashed>>
    /\ UNCHANGED oam

\* the next SetKey or SetObject of request r's CreateKubeconfigs
KubeconfigWrite(r) ==
    /\ ~crashed
    /\ dispatch[r].pc = "ingesting"
    /\ Len(dispatch[r].todo) > 0
    /\ kubeconfig' = Append(kubeconfig, Head(dispatch[r].todo))
    /\ dispatch' = [dispatch EXCEPT ![r].todo = Tail(@)]
    /\ UNCHANGED <<catalog, requests, task, calls, feeds, sink, crashed>>
    /\ UNCHANGED oam

\* CreateKubeconfigs has returned: the rest of ApplyOperation up to the end of the switch
ApplyOperationSwitch(r) ==
    /\ ~crashed
    /\ dispatch[r].pc = "ingesting"
    /\ Len(dispatch[r].todo) = 0
    /\ LET out == DispatchOutcome(requests[r], catalog)
       IN  /\ dispatch' = [dispatch EXCEPT
                              ![r].pc = IF out.returned THEN "returned" ELSE "switched",
                              ![r].err = out.err]
           /\ task' = [task EXCEPT ![r] = IF out.launch THEN "launched" ELSE "none"]
           /\ sink' = sink \o PublishAll(r, out.events)
    /\ UNCHANGED <<catalog, requests, calls, feeds, kubeconfig, crashed>>
    /\ UNCHANGED oam

\* the handler of request r is waited for before ApplyOperation returns
ApplyOperationReturnJoined(r) ==
    /\ ~crashed
    /\ dispatch[r].pc = "switched"
    /\ task[r] \in {"none", "done"}
    /\ dispatch' = [dispatch EXCEPT ![r].pc = "returned"]
    /\ UNCHANGED <<catalog, requests, task, calls, feeds, sink, kubeconfig>>
    /\ UNCHANGED crashed
    /\ UNCHANGED oam

\* "return nil" after the switch
ApplyOperationReturn(r) ==
    /\ ~crashed
    /\ dispatch[r].pc = "switched"
    /\ dispatch' = [dispatch EXCEPT ![r].pc = "returned"]
    /\ UNCHANGED <<catalog, requests, task, calls, feeds, sink, kubeconfig>>
    /\ UNCHANGED crashed
    /\ UNCHANGED oam

(***************************************************************************)
(* The handler goroutines of the non-streaming cases.                      *)
(***************************************************************************)
ClassOf(r) == OpClass(requests[r].OperationName)
DescriptorOf(r) == Descriptor(catalog, requests[r].OperationName)
NonStreaming(r) == ClassOf(r) \notin {"vet", "default"}

\* the control-plane handler finds no version: ErrFetchIstioVersions, no install
NoVersions(r) == ClassOf(r) = "mesh" /\ Len(DescriptorOf(r).Versions) = 0

\* the conformance handler indexes Templates[0] of a descriptor without templates
NoTemplate(r) == ClassOf(r) = "smi" /\ DescriptorOf(r).Templates = 0

\* the call a handler makes to its collaborator
CollaboratorCall(r) ==
    [fn |-> CollaboratorOf(ClassOf(r)),
     version |-> IF ClassOf(r) = "mesh"
                 THEN EffectiveVersion(DescriptorOf(r).Versions, requests[r].Version)
                 ELSE 0,
     del |-> requests[r].IsDeleteOperation,
     result |-> "pending"]

\* the record of a control-plane handler that found no version is a success record
NoVersionsEventSuccess(r) ==
    SuccessEvent("mesh", requests[r], DescriptorOf(r), "", 0)

\* the record of a control-plane handler that found no version (stat and
\* version are still their zero values)
NoVersionsEvent(r) ==
    FailureEvent("mesh", requests[r], DescriptorOf(r), "", 0, ErrFetchIstioVersions)

HandlerNoVersions(r) ==
    /\ ~crashed
    /\ task[r] = "launched"
    /\ NoVersions(r)
    /\ sink' = Append(sink, Published(r, NoVersionsEvent(r), ErrFetchIstioVersions))
    /\ task' = [task EXCEPT ![r] = "done"]
    /\ UNCHANGED <<catalog, requests, dispatch, calls, feeds, kubeconfig, crashed>>
    /\ UNCHANGED oam

HandlerPanic(r) ==
    /\ ~crashed
    /\ task[r] = "launched"
    /\ NoTemplate(r)
    /\ task' = [task EXCEPT ![r] = "panicked"]
    /\ crashed' = TRUE
    /\ UNCHANGED <<catalog, requests, dispatch, calls, feeds, sink, kubeconfig>>
    /\ UNCHANGED oam

\* the handler writes the version it chose back into the request
HandlerCallStoringVersion(r) ==
    /\ ~crashed
    /\ task[r] = "launched"
    /\ NonStreaming(r)
    /\ ~NoVersions(r)
    /\ ~NoTemplate(r)
    /\ calls' = [calls EXCEPT ![r] = CollaboratorCall(r)]
    /\ requests' = [requests EXCEPT ![r].Version = CollaboratorCall(r).version]
    /\ task' = [task EXCEPT ![r] = "calling"]
    /\ UNCHANGED <<catalog, dispatch, feeds, sink, kubeconfig, crashed>>
    /\ UNCHANGED oam

HandlerCall(r) ==
    /\ ~crashed
    /\ task[r] = "launched"
    /\ NonStreaming(r)
    /\ ~NoVersions(r)
    /\ ~NoTemplate(r)
    /\ calls' = [calls EXCEPT ![r] = CollaboratorCall(r)]
    /\ task' = [task EXCEPT ![r] = "calling"]
    /\ UNCHANGED <<catalog, requests, dispatch, feeds, sink, kubeconfig, crashed>>
    /\ UNCHANGED oam

\* the record a handler publishes once its collaborator returned res
TerminalEvent(r, res) ==
    IF IsError(res.err)
    THEN FailureEvent(ClassOf(r), requests[r], DescriptorOf(r), res.stat,
                      calls[r].version, res.err)
    ELSE SuccessEvent(ClassOf(r), requests[r], DescriptorOf(r), res.stat,
                      calls[r].version)

HandlerFinish(r, ok) ==
    /\ ~crashed
    /\ task[r] = "calling"
    /\ LET res == CollaboratorResult(calls[r].fn, calls[r].del, ok)
       IN  sink' = Append(sink, Published(r, TerminalEvent(r, res), res.err))
    /\ calls' = [calls EXCEPT ![r].result = IF ok THEN "ok" ELSE "failed"]
    /\ task' = [task EXCEPT ![r] = "done"]
    /\ UNCHANGED <<catalog, requests, dispatch, feeds, kubeconfig, crashed>>
    /\ UNCHANGED oam

HandlerSucceed(r) == HandlerFinish(r, TRUE)
HandlerFail(r) == HandlerFinish(r, FALSE)

(***************************************************************************)
(* The verification handler: the consumer goroutine and RunVet.            *)
(***************************************************************************)
\* the caller cancels the ctx it passed to ApplyOperation; atCancel remembers
\* how many records had been published by then
CancelContext(r) ==
    /\ ~crashed
    /\ dispatch[r].ctx = "live"
    /\ dispatch' = [dispatch EXCEPT ![r].ctx = "cancelled", ![r].atCancel = Len(sink)]
    /\ UNCHANGED <<catalog, requests, task, calls, feeds, sink, kubeconfig, crashed>>
    /\ UNCHANGED oam

\* make(chan, 1); go hh.RunVet(responseChan, kubeConfigs)
VetStart(r) ==
    /\ ~crashed
    /\ task[r] = "launched"
    /\ ClassOf(r) = "vet"
    /\ task' = [task EXCEPT ![r] = "ranging"]
    /\ feeds' = [feeds EXCEPT ![r] = NoFeed]
    /\ UNCHANGED <<catalog, requests, dispatch, calls, sink, kubeconfig, crashed>>
    /\ UNCHANGED oam

\* RunVet sends its next record
VetSend(r, type) ==
    /\ ~crashed
    /\ task[r] = "ranging"
    /\ ~feeds[r].closed
    /\ Len(feeds[r].chan) < ChanCapacity
    /\ Len(feeds[r].produced) < MaxFeed
    /\ LET msg == VetMessage(Len(feeds[r].produced) + 1, type)
       IN  feeds' = [feeds EXCEPT ![r].chan = Append(@, msg),
                                  ![r].produced = Append(@, msg)]
    /\ UNCHANGED <<catalog, requests, dispatch, task, calls, sink, kubeconfig, crashed>>
    /\ UNCHANGED oam

\* RunVet closes the channel and ends
VetClose(r) ==
    /\ ~crashed
    /\ task[r] = "ranging"
    /\ ~feeds[r].closed
    /\ feeds' = [feeds EXCEPT ![r].closed = TRUE]
    /\ UNCHANGED <<catalog, requests, dispatch, task, calls, sink, kubeconfig, crashed>>
    /\ UNCHANGED oam

\* the loop forwards only while ctx is live
VetReceiveUnlessCancelled(r) ==
    /\ ~crashed
    /\ task[r] = "ranging"
    /\ dispatch[r].ctx = "live"
    /\ Len(feeds[r].chan) > 0
    /\ sink' = Append(sink, Published(r, Forward(Head(feeds[r].chan)), ForwardError(Head(feeds[r].chan))))
    /\ feeds' = [feeds EXCEPT ![r].chan = Tail(@)]
    /\ UNCHANGED <<catalog, requests, dispatch, task, calls, kubeconfig, crashed>>
    /\ UNCHANGED oam

\* one turn of "for msg := range responseChan"
VetReceive(r) ==
    /\ ~crashed
    /\ task[r] = "ranging"
    /\ Len(feeds[r].chan) > 0
    /\ sink' = Append(sink, Published(r, Forward(Head(feeds[r].chan)), ForwardError(Head(feeds[r].chan))))
    /\ feeds' = [feeds EXCEPT ![r].chan = Tail(@)]
    /\ UNCHANGED <<catalog, requests, dispatch, task, calls, kubeconfig, crashed>>
    /\ UNCHANGED oam

\* the loop ends when it finds the channel empty, closed or not
VetDoneOnEmpty(r) ==
    /\ ~crashed
    /\ task[r] = "ranging"
    /\ Len(feeds[r].chan) = 0
    /\ task' = [task EXCEPT ![r] = "done"]
    /\ UNCHANGED <<catalog, requests, dispatch, calls, feeds, sink, kubeconfig, crashed>>
    /\ UNCHANGED oam

\* the loop ends as soon as the channel is closed, drained or not
VetDoneEarly(r) ==
    /\ ~crashed
    /\ task[r] = "ranging"
    /\ feeds[r].closed
    /\ task' = [task EXCEPT ![r] = "done"]
    /\ UNCHANGED <<catalog, requests, dispatch, calls, feeds, sink, kubeconfig, crashed>>
    /\ UNCHANGED oam

\* "msg := <-responseChan": the loop takes the next record out of the channel
VetTake(r) ==
    /\ ~crashed
    /\ task[r] = "ranging"
    /\ Len(feeds[r].hand) = 0
    /\ Len(feeds[r].chan) > 0
    /\ feeds' = [feeds EXCEPT ![r].hand = <<Head(feeds[r].chan)>>,
                               ![r].chan = Tail(@)]
    /\ UNCHANGED <<catalog, requests, dispatch, task, calls, sink, kubeconfig, crashed>>
    /\ UNCHANGED oam

\* the body of the loop: the switch on msg.EventType and its Stream call
VetStream(r) ==
    /\ ~crashed
    /\ task[r] = "ranging"
    /\ Len(feeds[r].hand) = 1
    /\ sink' = Append(sink, Published(r, Forward(feeds[r].hand[1]),
                                      ForwardError(feeds[r].hand[1])))
    /\ feeds' = [feeds EXCEPT ![r].hand = <<>>]
    /\ UNCHANGED <<catalog, requests, dispatch, task, calls, kubeconfig, crashed>>
    /\ UNCHANGED oam

\* the consumer streams the record it was handed (ee) when the loop ends
VetDoneStreamingPlaceholder(r) ==
    /\ ~crashed
    /\ task[r] = "ranging"
    /\ feeds[r].closed
    /\ Len(feeds[r].chan) = 0
    /\ sink' = Append(sink, Published(r, StreamInfo(InitialEvent(requests[r])), NoError))
    /\ task' = [task EXCEPT ![r] = "done"]
    /\ UNCHANGED <<catalog, requests, dispatch, calls, feeds, kubeconfig, crashed>>
    /\ UNCHANGED oam

\* the range loop ends on the closed, drained channel; Log.Info("Done")
VetDone(r) ==
    /\ ~crashed
    /\ task[r] = "ranging"
    /\ feeds[r].closed
    /\ Len(feeds[r].chan) = 0
    /\ Len(feeds[r].hand) = 0
    /\ task' = [task EXCEPT ![r] = "done"]
    /\ UNCHANGED <<catalog, requests, dispatch, calls, feeds, sink, kubeconfig, crashed>>
    /\ UNCHANGED oam

(***************************************************************************)
(* ProcessOAM.  oam.trace lists the calls ProcessOAM makes to              *)
(* HandleComponents and HandleApplicationConfiguration and their returns,  *)
(* in order; each of the two returns a message, with or without an error   *)
(* (ok tells which).                                                       *)
(* The credential writes of ProcessOAM are entered under request 0.        *)
(***************************************************************************)
\* HandleComponents is handed comps, HandleApplicationConfiguration is handed config
Call(phase, comps, config) ==
    [phase |-> phase, at |-> "call", ok |-> TRUE,
     comps |-> IF phase = "components" THEN comps ELSE <<>>,
     config |-> IF phase = "configuration" THEN config ELSE "none"]
Return(phase, ok) ==
    [phase |-> phase, at |-> "return", ok |-> ok, comps |-> <<>>, config |-> "none"]

\* config after "config, err := oam.ParseApplicationConfiguration(oamReq.OamConfig)"
ConfigOf(req) == ParseApplicationConfiguration(req.OamConfig).config

\* ProcessOAM goes on to its first phase whatever CreateKubeconfigs returned
ProcessOAMIgnoringKubeconfigs(req) ==
    /\ ~crashed
    /\ oam.pc = "idle"
    /\ kubeconfig' = kubeconfig \o WritesOf(0, CreateKubeconfigs(req.K8sConfigs).writes)
    /\ oam' = [NoOAM EXCEPT !.pc = "first", !.req = req,
                            !.comps = ParseComponents(req.OamComps, 1),
                            !.trace = <<Call(FirstPhase(req.DeleteOp),
                                           ParseComponents(req.OamComps, 1), ConfigOf(req))>>]
    /\ UNCHANGED <<catalog, requests, dispatch, task, calls, feeds, sink, crashed>>

\* ProcessOAM returns the error of a configuration that does not parse
ProcessOAMReturningParseError(req) ==
    /\ ~crashed
    /\ oam.pc = "idle"
    /\ LET k == CreateKubeconfigs(req.K8sConfigs)
           c == ParseApplicationConfiguration(req.OamConfig)
       IN  /\ kubeconfig' = kubeconfig \o WritesOf(0, k.writes)
           /\ oam' = IF IsError(k.err)
                     THEN [NoOAM EXCEPT !.pc = "returned", !.req = req, !.err = k.err]
                     ELSE IF IsError(c.err)
                     THEN [NoOAM EXCEPT !.pc = "returned", !.req = req,
                                        !.comps = ParseComponents(req.OamComps, 1),
                                        !.err = c.err]
                     ELSE [NoOAM EXCEPT !.pc = "first", !.req = req,
                                        !.comps = ParseComponents(req.OamComps, 1),
                                        !.trace = <<Call(FirstPhase(req.DeleteOp),
                                                       ParseComponents(req.OamComps, 1),
                                                       c.config)>>]
    /\ UNCHANGED <<catalog, requests, dispatch, task, calls, feeds, sink, crashed>>

\* ProcessOAM from its entry to the call of its first phase
ProcessOAM(req) ==
    /\ ~crashed
    /\ oam.pc = "idle"
    /\ LET k == CreateKubeconfigs(req.K8sConfigs)
       IN  /\ kubeconfig' = kubeconfig \o WritesOf(0, k.writes)
           /\ oam' = IF IsError(k.err)
                     THEN [NoOAM EXCEPT !.pc = "returned", !.req = req, !.err = k.err]
                     ELSE [NoOAM EXCEPT !.pc = "first", !.req = req,
                                        !.comps = ParseComponents(req.OamComps, 1),
                                        !.trace = <<Call(FirstPhase(req.DeleteOp),
                                                       ParseComponents(req.OamComps, 1), ConfigOf(req))>>]
    /\ UNCHANGED <<catalog, requests, dispatch, task, calls, feeds, sink, crashed>>

\* the configuration is processed even when the components phase failed
OAMFirstReturnContinuing(ok) ==
    /\ ~crashed
    /\ oam.pc = "first"
    /\ oam' = [oam EXCEPT !.pc = "second",
                          !.trace = @ \o <<Return(FirstPhase(oam.req.DeleteOp), ok),
                                           Call(SecondPhase(oam.req.DeleteOp), oam.comps,
                                                ConfigOf(oam.req))>>]
    /\ UNCHANGED <<catalog, requests, dispatch, task, calls, feeds, sink, kubeconfig, crashed>>

\* the first phase returns: on an error ProcessOAM returns that phase's
\* message alone, otherwise it calls the second phase
OAMFirstReturn(ok) ==
    /\ ~crashed
    /\ oam.pc = "first"
    /\ LET phase == FirstPhase(oam.req.DeleteOp)
       IN  oam' = IF ok
                  THEN [oam EXCEPT !.pc = "second",
                                   !.trace = @ \o <<Return(phase, ok),
                                                    Call(SecondPhase(oam.req.DeleteOp), oam.comps,
                                                ConfigOf(oam.req))>>]
                  ELSE [oam EXCEPT !.pc = "returned",
                                   !.trace = Append(@, Return(phase, ok)),
                                   !.msg = PhaseMessage(phase),
                                   !.err = ErrProcessOAM(PhaseError(phase))]
    /\ UNCHANGED <<catalog, requests, dispatch, task, calls, feeds, sink, kubeconfig, crashed>>

\* the messages are joined in the order the phases ran
OAMSecondReturnExecutionOrder(ok) ==
    /\ ~crashed
    /\ oam.pc = "second"
    /\ LET first == FirstPhase(oam.req.DeleteOp)
           second == SecondPhase(oam.req.DeleteOp)
       IN  oam' = [oam EXCEPT !.pc = "returned",
                              !.trace = Append(@, Return(second, ok)),
                              !.msg = PhaseMessage(first) \o <<"\n">> \o PhaseMessage(second),
                              !.err = IF ok THEN NoError
                                      ELSE ErrProcessOAM(PhaseError(second))]
    /\ UNCHANGED <<catalog, requests, dispatch, task, calls, feeds, sink, kubeconfig, crashed>>

\* the second phase returns: ProcessOAM returns msg1 + "\n" + msg2, with the
\* phase's error if it failed
OAMSecondReturn(ok) ==
    /\ ~crashed
    /\ oam.pc = "second"
    /\ LET phase == SecondPhase(oam.req.DeleteOp)
       IN  oam' = [oam EXCEPT !.pc = "returned",
                              !.trace = Append(@, Return(phase, ok)),
                              !.msg = Joined,
                              !.err = IF ok THEN NoError
                                      ELSE ErrProcessOAM(PhaseError(phase))]
    /\ UNCHANGED <<catalog, requests, dispatch, task, calls, feeds, sink, kubeconfig, crashed>>

(***************************************************************************)
(* The specification.                                                      *)
(***************************************************************************)
\* Spec follows one request, whatever it is, from its arrival to its last record.
Next ==
    \/ Len(requests) = 0 /\ \E in \in RequestInputs : ApplyOperation(in)
    \/ \E r \in DOMAIN requests : ApplyOperationReturn(r)
    \/ \E r \in DOMAIN requests : HandlerNoVersions(r)
    \/ \E r \in DOMAIN requests : HandlerPanic(r)
    \/ \E r \in DOMAIN requests : HandlerCall(r)
    \/ \E r \in DOMAIN requests : HandlerSucceed(r)
    \/ \E r \in DOMAIN requests : HandlerFail(r)
    \/ \E r \in DOMAIN requests : VetStart(r)
    \/ \E r \in DOMAIN requests, type \in EventTypes : VetSend(r, type)
    \/ \E r \in DOMAIN requests : VetClose(r)
    \/ \E r \in DOMAIN requests : VetReceive(r)
    \/ \E r \in DOMAIN requests : VetDone(r)

Spec == Init /\ [][Next]_vars

\* VetSpec follows one verification request; its ctx may be cancelled at any
\* moment.  The catalog's version lists, which the verification never reads,
\* are left empty.  The consumer goroutine is scheduled whenever it can run:
\* a record in the channel is eventually received, and the loop eventually
\* ends on the closed, drained channel.
VetInputs == {in \in RequestInputs : in.OperationName = IstioVetOperation}

VetInit == Init /\ catalog.versions = <<>>

NextVet ==
    \/ Len(requests) = 0 /\ \E in \in VetInputs : ApplyOperation(in)
    \/ \E r \in DOMAIN requests : ApplyOperationReturn(r)
    \/ \E r \in DOMAIN requests : CancelContext(r)
    \/ \E r \in DOMAIN requests : VetStart(r)
    \/ \E r \in DOMAIN requests, type \in EventTypes : VetSend(r, type)
    \/ \E r \in DOMAIN requests : VetClose(r)
    \/ \E r \in DOMAIN requests : VetReceive(r)
    \/ \E r \in DOMAIN requests : VetDone(r)

VetSpec ==
    /\ VetInit
    /\ [][NextVet]_vars
    /\ WF_vars(\E r \in DOMAIN requests : VetReceive(r))
    /\ WF_vars(\E r \in DOMAIN requests : VetDone(r))

\* OAMSpec follows one call of ProcessOAM, whatever its request and whatever
\* the two phases return.
NextOAM ==
    \/ \E req \in OAMRequests : ProcessOAM(req)
    \/ \E ok \in BOOLEAN : OAMFirstReturn(ok)
    \/ \E ok \in BOOLEAN : OAMSecondReturn(ok)

OAMSpec == Init /\ [][NextOAM]_vars

\* FeedSpec follows one verification request with the turns of the range loop
\* in two steps, the receive and the Stream call, so that RunVet can send
\* between the two.
FeedInputs == {in \in VetInputs : Len(in.K8sConfigs) = 0}

NextFeed ==
    \/ Len(requests) = 0 /\ \E in \in FeedInputs : ApplyOperation(in)
    \/ \E r \in DOMAIN requests : ApplyOperationReturn(r)
    \/ \E r \in DOMAIN requests : VetStart(r)
    \/ \E r \in DOMAIN requests, type \in EventTypes : VetSend(r, type)
    \/ \E r \in DOMAIN requests : VetClose(r)
    \/ \E r \in DOMAIN requests : VetTake(r)
    \/ \E r \in DOMAIN requests : VetStream(r)
    \/ \E r \in DOMAIN requests : VetDone(r)

FeedSpec == VetInit /\ [][NextFeed]_vars

\* IngestSpec follows up to MaxRequests calls of ApplyOperation, each with one
\* kubeconfig payload, through their kubeconfig ingestion, write by write, to
\* the end of the switch; the handlers it launches are not followed.
IngestInputs ==
    {in \in RequestInputs :
        /\ in.OperationName = IstioOperation
        /\ in.Version = 0
        /\ ~in.IsDeleteOperation
        /\ Len(in.K8sConfigs) = 1}

IngestInit == Init /\ catalog.versions = <<>>

NextIngest ==
    \/ \E in \in IngestInputs : ApplyOperationEnter(in)
    \/ \E r \in DOMAIN requests : KubeconfigWrite(r)
    \/ \E r \in DOMAIN requests : ApplyOperationSwitch(r)

IngestSpec == IngestInit /\ [][NextIngest]_vars

\* ConcurrentSpec follows up to MaxRequests requests for non-streaming
\* operations, dispatched one after the other, whose handlers run concurrently.
ConcurrentInputs ==
    {in \in RequestInputs :
        /\ in.OperationName \in {IstioOperation, SmiConformanceOperation, CustomOperation}
        /\ in.Version = 0
        /\ Len(in.K8sConfigs) = 0}

NextConcurrent ==
    \/ Len(requests) < MaxRequests /\ \E in \in ConcurrentInputs : ApplyOperation(in)
    \/ \E r \in DOMAIN requests : ApplyOperationReturn(r)
    \/ \E r \in DOMAIN requests : HandlerNoVersions(r)
    \/ \E r \in DOMAIN requests : HandlerPanic(r)
    \/ \E r \in DOMAIN requests : HandlerCall(r)
    \/ \E r \in DOMAIN requests : HandlerSucceed(r)
    \/ \E r \in DOMAIN requests : HandlerFail(r)

ConcurrentSpec == Init /\ [][NextConcurrent]_vars

TypeOK ==
    /\ catalog \in Catalogs
    /\ Len(dispatch) = Len(requests)
    /\ Len(task) = Len(requests)
    /\ \A r \in DOMAIN requests :
        /\ dispatch[r].pc \in {"ingesting", "switched", "returned"}
        /\ dispatch[r].ctx \in {"live", "cancelled"}
        /\ dispatch[r].atCancel \in 0..Len(sink)
        /\ task[r] \in {"none", "launched", "calling", "ranging", "done", "panicked"}
    /\ crashed \in BOOLEAN
    /\ oam.pc \in {"idle", "first", "second", "returned"}
    /\ oam.req \in OAMRequests \cup {ZeroOAMRequest}

(***************************************************************************)
(* Vocabulary of the properties.                                           *)
(***************************************************************************)
\* the records request r's dispatcher or handler published, in order
RecordsOf(r) ==
    LET ByR(x) == x.by = r
        RECURSIVE Events(_)
        Events(xs) == IF Len(xs) = 0 THEN <<>> ELSE <<Head(xs).event>> \o Events(Tail(xs))
    IN  Events(SelectSeq(sink, ByR))

\* two lists of records hold the same findings (the Details RunVet gave them)
\* in the same order, whatever the type each was streamed with
SameFindings(a, b) ==
    /\ Len(a) = Len(b)
    /\ \A i \in DOMAIN a : a[i].Details = b[i].Details /\ a[i].Summary = b[i].Summary

KubeconfigsFailed(r) == IsError(CreateKubeconfigs(requests[r].K8sConfigs).err)
PreChecksPassed(r) == ~KubeconfigsFailed(r) /\ catalog.readable
Launched(r) == task[r] # "none"
Ended(r) == task[r] \in {"done", "panicked"}

(***************************************************************************)
(* C1: ApplyOperation does not wait for the handler it launched.  For a    *)
(* recognized operation (the pre-checks passed) the switch launches the    *)
(* handler; from then on "return nil" can be taken whatever the handler is *)
(* doing, and the value returned for a request whose handler was launched  *)
(* is nil, whatever the handler's outcome.                                 *)
(***************************************************************************)
C1_NonBlocking ==
    \A r \in DOMAIN requests :
        /\ (PreChecksPassed(r) /\ ClassOf(r) # "default") => Launched(r)
        /\ (dispatch[r].pc = "switched" /\ ~crashed) => ENABLED ApplyOperationReturn(r)
        /\ Launched(r) => ~IsError(dispatch[r].err)

\* ApplyOperation has returned while the collaborator call is still running
C1_Witness ==
    \E r \in DOMAIN requests :
        /\ dispatch[r].pc = "returned"
        /\ task[r] = "calling"
        /\ calls[r].result = "pending"

(***************************************************************************)
(* C2: every non-streaming handler publishes exactly one record over its   *)
(* life: never more than one, and one once the handler has ended.          *)
(***************************************************************************)
C2_ExactlyOneTerminalRecord ==
    \A r \in DOMAIN requests :
        (Launched(r) /\ NonStreaming(r)) =>
            /\ Len(RecordsOf(r)) <= 1
            /\ Ended(r) => Len(RecordsOf(r)) = 1

(***************************************************************************)
(* C3: a collaborator's failure is not returned by ApplyOperation, which   *)
(* returns nil; the handler publishes it as its one record, of type ERROR, *)
(* carrying the failure's text.  The verification consumer forwards every  *)
(* record the producer declared ERROR as an ERROR record.                  *)
(***************************************************************************)
C3_HandlerErrorBecomesRecord ==
    \A r \in DOMAIN requests :
        /\ calls[r].result = "failed" =>
            /\ ~IsError(dispatch[r].err)
            /\ Len(RecordsOf(r)) = 1
            /\ RecordsOf(r)[1].EventType = "ERROR"
            /\ RecordsOf(r)[1].Details = ErrorText(ErrCollaborator(calls[r].fn))
        /\ (ClassOf(r) = "vet" /\ Launched(r)) =>
            /\ ~IsError(dispatch[r].err)
            /\ \A i \in DOMAIN RecordsOf(r) :
                feeds[r].produced[i].EventType = "ERROR"
                    => RecordsOf(r)[i].EventType = "ERROR"

\* a collaborator failed after ApplyOperation had returned
C3_Witness ==
    \E r \in DOMAIN requests :
        /\ calls[r].result = "failed"
        /\ dispatch[r].pc = "returned"
        /\ task[r] = "done"

(***************************************************************************)
(* C4: when CreateKubeconfigs fails, ApplyOperation returns that error at  *)
(* once, launches no handler and publishes no record.                      *)
(***************************************************************************)
C4_KubeconfigFailureReturned ==
    \A r \in DOMAIN requests :
        KubeconfigsFailed(r) =>
            /\ dispatch[r].pc = "returned"
            /\ dispatch[r].err = CreateKubeconfigs(requests[r].K8sConfigs).err
            /\ ~Launched(r)
            /\ Len(RecordsOf(r)) = 0

\* a request whose batch holds a payload that does not parse has been answered
C4_Witness ==
    \E r \in DOMAIN requests :
        /\ \E i \in DOMAIN requests[r].K8sConfigs : ~requests[r].K8sConfigs[i].parses
        /\ OpClass(requests[r].OperationName) # "default"
        /\ dispatch[r].pc = "returned"

(***************************************************************************)
(* C5.  As claimed: each dispatch-time error (kubeconfig failure,          *)
(* unreadable catalog, unrecognized operation) makes ApplyOperation return *)
(* a non-nil error, and no handler runs.                                   *)
(***************************************************************************)
DispatchTimeError(r) ==
    KubeconfigsFailed(r) \/ ~catalog.readable \/ ClassOf(r) = "default"

C5_AsClaimed ==
    \A r \in DOMAIN requests :
        (DispatchTimeError(r) /\ dispatch[r].pc = "returned") =>
            IsError(dispatch[r].err) /\ ~Launched(r)

(***************************************************************************)
(* C5, amended: a kubeconfig failure and an unreadable catalog make        *)
(* ApplyOperation return a non-nil error, with no handler and no record;   *)
(* an unrecognized operation launches no handler either, but               *)
(* ApplyOperation returns nil and reports it by one ERROR record published *)
(* before it returns.                                                      *)
(***************************************************************************)
C5_DispatchTimeErrors ==
    \A r \in DOMAIN requests :
        /\ (KubeconfigsFailed(r) \/ ~catalog.readable) =>
            /\ dispatch[r].pc = "returned"
            /\ IsError(dispatch[r].err)
            /\ ~Launched(r)
            /\ Len(RecordsOf(r)) = 0
        /\ (PreChecksPassed(r) /\ ClassOf(r) = "default") =>
            /\ ~IsError(dispatch[r].err)
            /\ ~Launched(r)
            /\ Len(RecordsOf(r)) = 1
            /\ RecordsOf(r)[1].EventType = "ERROR"

\* a request met an unreadable catalog after its kubeconfigs were ingested
C5_Witness ==
    \E r \in DOMAIN requests :
        /\ ~KubeconfigsFailed(r)
        /\ ~catalog.readable
        /\ dispatch[r].pc = "returned"

(***************************************************************************)
(* C6.  As claimed: for an unrecognized operation name (the pre-checks     *)
(* passed) ApplyOperation launches no handler and publishes, before it     *)
(* returns, exactly one ERROR record whose summary contains "invalid       *)
(* operation".                                                             *)
(***************************************************************************)
Mentions(text, words) == \E i \in DOMAIN text : text[i] = words

NotInCatalog(r) ==
    \/ requests[r].OperationName \notin catalog.names
    \/ ClassOf(r) = "mesh" /\ Len(DescriptorOf(r).Versions) = 0

C7_AbsentIsAlwaysError ==
    \A r \in DOMAIN requests :
        (PreChecksPassed(r) /\ NotInCatalog(r) /\ ClassOf(r) # "vet") =>
            /\ \A i \in DOMAIN RecordsOf(r) : RecordsOf(r)[i].EventType = "ERROR"
            /\ (Ended(r) \/ ~Launched(r)) => Len(RecordsOf(r)) >= 1

(***************************************************************************)
(* C8: the version the control-plane handler hands to installIstio is the  *)
(* requested version when the descriptor lists it, and the last listed     *)
(* version otherwise.                                                      *)
(***************************************************************************)
C8_EffectiveVersion ==
    \A r \in DOMAIN requests :
        calls[r].fn = "installIstio" =>
            LET versions == catalog.versions
                requested == requests[r].Version
            IN  /\ Len(versions) > 0
                /\ (\E i \in 1..Len(versions) : versions[i] = requested)
                        => calls[r].version = requested
                /\ (\A i \in 1..Len(versions) : versions[i] # requested)
                        => calls[r].version = versions[Len(versions)]

\* installIstio was called with the last of two listed versions, the request naming none
C8_Witness ==
    \E r \in DOMAIN requests :
        /\ calls[r].fn = "installIstio"
        /\ requests[r].Version = 0
        /\ Len(catalog.versions) = 2
        /\ calls[r].version = catalog.versions[2]

(***************************************************************************)
(* C9: a control-plane request whose descriptor lists no version never     *)
(* calls installIstio; its handler ends with one ERROR record carrying     *)
(* ErrFetchIstioVersions, and publishes no success record.                 *)
(***************************************************************************)
C9_NoVersionsFailsFast ==
    \A r \in DOMAIN requests :
        (Launched(r) /\ ClassOf(r) = "mesh" /\ Len(DescriptorOf(r).Versions) = 0) =>
            /\ calls[r] = NoCall
            /\ task[r] \in {"launched", "done"}
            /\ \A i \in DOMAIN RecordsOf(r) : RecordsOf(r)[i].EventType = "ERROR"
            /\ task[r] = "done" =>
                /\ Len(RecordsOf(r)) = 1
                /\ RecordsOf(r)[1].Details = ErrorText(ErrFetchIstioVersions)
                /\ RecordsOf(r)[1].ErrorCode = GetCode(ErrFetchIstioVersions)

\* the handler of a control-plane request has ended on a descriptor that is
\* in the catalog and lists no version
C9_Witness ==
    \E r \in DOMAIN requests :
        /\ ClassOf(r) = "mesh"
        /\ requests[r].OperationName \in catalog.names
        /\ Len(catalog.versions) = 0
        /\ task[r] = "done"

(***************************************************************************)
(* C10: the records the verification consumer has forwarded, followed by   *)
(* those still in the channel, are the records the producer sent, in the   *)
(* order sent; once the consumer has ended, the forwarded records are      *)
(* exactly the records sent.                                               *)
(***************************************************************************)
C10_FeedForwardedInOrder ==
    \A r \in DOMAIN requests :
        (Launched(r) /\ ClassOf(r) = "vet") =>
            /\ SameFindings(RecordsOf(r) \o feeds[r].chan, feeds[r].produced)
            /\ task[r] = "done" => SameFindings(RecordsOf(r), feeds[r].produced)

\* the producer sent info, warning, error and the consumer has ended
C10_Witness ==
    \E r \in DOMAIN requests :
        /\ ClassOf(r) = "vet"
        /\ task[r] = "done"
        /\ Len(feeds[r].produced) = 3
        /\ feeds[r].produced[1].EventType = "INFO"
        /\ feeds[r].produced[2].EventType = "WARN"
        /\ feeds[r].produced[3].EventType = "ERROR"
        /\ Len(RecordsOf(r)) = 3

(***************************************************************************)
(* C11: the verification consumer reads until the feed is closed.  It      *)
(* never ends while the feed is open or holds a record; no step of the     *)
(* consumer closes the feed or changes what the producer has sent; and     *)
(* once the producer has closed the feed the consumer eventually ends,     *)
(* having forwarded every record the producer sent.                        *)
(***************************************************************************)
VetRunning(r) == ClassOf(r) = "vet" /\ task[r] = "ranging"
VetEnded(r) == ClassOf(r) = "vet" /\ task[r] = "done"

C11_ReadsUntilClosed ==
    /\ [](\A r \in DOMAIN requests :
            VetEnded(r) => feeds[r].closed /\ Len(feeds[r].chan) = 0)
    /\ [][\A r \in DOMAIN requests :
            (sink' # sink \/ task'[r] # task[r]) =>
                /\ feeds'[r].closed = feeds[r].closed
                /\ feeds'[r].produced = feeds[r].produced]_vars
    /\ (\E r \in DOMAIN requests : VetRunning(r) /\ feeds[r].closed)
          ~> (\E r \in DOMAIN requests :
                VetEnded(r) /\ SameFindings(RecordsOf(r), feeds[r].produced))

\* the producer sent at least two records and closed the feed, and the
\* consumer has ended with all of them forwarded
C11_Witness ==
    \E r \in DOMAIN requests :
        /\ VetEnded(r)
        /\ feeds[r].closed
        /\ Len(feeds[r].produced) >= 2
        /\ SameFindings(RecordsOf(r), feeds[r].produced)

(***************************************************************************)
(* C12, as claimed: once the ctx of a verification request is cancelled,   *)
(* no further record reaches the sink.                                     *)
(***************************************************************************)
Cancelled(r) == dispatch[r].ctx = "cancelled"

C12_AsClaimed ==
    \A r \in DOMAIN requests :
        (ClassOf(r) = "vet" /\ Cancelled(r)) => Len(sink) = dispatch[r].atCancel

(***************************************************************************)
(* C12, as the code has it: ApplyOperation never reads ctx, so cancelling  *)
(* it changes nothing.  After the cancellation the consumer still takes    *)
(* every record it finds in the channel, it ends only with every record    *)
(* the producer sent forwarded, the cancellation touches neither the feed  *)
(* nor the task, and a closed feed is still drained to the end.            *)
(***************************************************************************)
C12_CancellationIgnored ==
    /\ [](\A r \in DOMAIN requests :
            (Cancelled(r) /\ VetRunning(r) /\ Len(feeds[r].chan) > 0)
                => ENABLED VetReceive(r))
    /\ [](\A r \in DOMAIN requests :
            (Cancelled(r) /\ VetEnded(r)) => SameFindings(RecordsOf(r), feeds[r].produced))
    /\ [][\A r \in DOMAIN requests :
            dispatch'[r].ctx # dispatch[r].ctx =>
                feeds' = feeds /\ task' = task /\ sink' = sink]_vars
    /\ (\E r \in DOMAIN requests :
            Cancelled(r) /\ VetRunning(r) /\ feeds[r].closed)
          ~> (\E r \in DOMAIN requests :
                VetEnded(r) /\ SameFindings(RecordsOf(r), feeds[r].produced))

\* the ctx was cancelled before the first record was forwarded, and the
\* consumer has ended with three records forwarded
C12_Witness ==
    \E r \in DOMAIN requests :
        /\ Cancelled(r)
        /\ VetEnded(r)
        /\ dispatch[r].atCancel = 0
        /\ Len(RecordsOf(r)) = 3

(***************************************************************************)
(* Vocabulary of the kubeconfig properties.                                *)
(***************************************************************************)
Batch(r) == requests[r].K8sConfigs
Fails(p) == ~p.parses \/ p.failAt # "none"

\* the keys written to the credential store for payload i of request r, in order
KeysWritten(r, i) ==
    LET Mine(w) == w.request = r /\ w.payload = i
        RECURSIVE Keys(_)
        Keys(ws) == IF Len(ws) = 0 THEN <<>> ELSE <<Head(ws).key>> \o Keys(Tail(ws))
    IN  Keys(SelectSeq(kubeconfig, Mine))

AllKeys == <<"kind", "apiVersion", "current-context">> \o ObjectKeys

\* the errors CreateKubeconfigs handed to mergeErrors for request r; empty
\* when ApplyOperation did not return a merged error
MergedErrors(r) ==
    IF IsError(dispatch[r].err) /\ dispatch[r].err[1] = "mergeErrors"
    THEN dispatch[r].err[2] ELSE <<>>

(***************************************************************************)
(* C13: every payload of a batch is processed on its own.  A payload that  *)
(* does not parse writes nothing and adds its error; a payload that parses *)
(* and whose four objects are stored has all its seven keys written, in    *)
(* the order of the code, wherever the failing payloads of the batch sit.  *)
(***************************************************************************)
C13_PayloadsIndependent ==
    \A r \in DOMAIN requests :
        \A i \in DOMAIN Batch(r) :
            /\ ~Fails(Batch(r)[i]) => KeysWritten(r, i) = AllKeys
            /\ ~Batch(r)[i].parses =>
                    /\ KeysWritten(r, i) = <<>>
                    /\ \E j \in DOMAIN MergedErrors(r) :
                            /\ MergedErrors(r)[j][1] = "ErrUnmarshal"
                            /\ MergedErrors(r)[j][2] = i

\* a batch whose first payload does not parse and whose second is stored whole
C13_Witness ==
    \E r \in DOMAIN requests :
        /\ Len(Batch(r)) = 2
        /\ ~Batch(r)[1].parses
        /\ ~Fails(Batch(r)[2])
        /\ KeysWritten(r, 2) = AllKeys

(***************************************************************************)
(* C14, as claimed: after CreateKubeconfigs the three scalar keys hold the *)
(* value of the last payload that parsed, and each of the four collection  *)
(* keys holds the data of every payload that stored it, in input order.    *)
(***************************************************************************)
\* the payloads of request r that wrote the key, in input order
Writers(r, key) ==
    LET Mine(w) == w.request = r /\ w.key = key
        RECURSIVE Ids(_)
        Ids(ws) == IF Len(ws) = 0 THEN <<>> ELSE <<Head(ws).payload>> \o Ids(Tail(ws))
    IN  Ids(SelectSeq(kubeconfig, Mine))

C14_AsClaimed ==
    \A r \in DOMAIN requests :
        /\ \A k \in {"kind", "apiVersion", "current-context"} :
                Len(Writers(r, k)) > 0 =>
                    Stored(kubeconfig, k) = <<Writers(r, k)[Len(Writers(r, k))]>>
        /\ \A k \in DOMAIN ObjectKeys :
                Stored(kubeconfig, ObjectKeys[k]) = Writers(r, ObjectKeys[k])

(***************************************************************************)
(* C15: CreateKubeconfigs returns one merged error exactly when a payload  *)
(* of the batch failed to parse or to store an object, and nil otherwise   *)
(* (ApplyOperation then goes on to read the catalog).  What was written    *)
(* for the payloads that parsed stays in the store when the call fails.    *)
(* For the batch [malformed, well-formed] every key holds the second       *)
(* payload's value and the error is non-nil.                               *)
(***************************************************************************)
C15_AggregatedFailureNoRollback ==
    \A r \in DOMAIN requests :
        /\ (\E i \in DOMAIN Batch(r) : Fails(Batch(r)[i]))
                <=> (IsError(dispatch[r].err) /\ Len(MergedErrors(r)) > 0)
        /\ (\A i \in DOMAIN Batch(r) : ~Fails(Batch(r)[i]))
                => (~catalog.readable \/ dispatch[r].err = NoError)
        /\ \A i \in DOMAIN Batch(r) :
                Batch(r)[i].parses =>
                    /\ Len(KeysWritten(r, i)) >= 3
                    /\ Batch(r)[i].failAt = "none" => KeysWritten(r, i) = AllKeys
        /\ (Len(Batch(r)) = 2 /\ ~Batch(r)[1].parses /\ ~Fails(Batch(r)[2])) =>
                /\ \A k \in DOMAIN AllKeys : Stored(kubeconfig, AllKeys[k]) = <<2>>
                /\ IsError(dispatch[r].err)

\* the batch [malformed, well-formed] has been ingested and the call has failed
C15_Witness ==
    \E r \in DOMAIN requests :
        /\ Len(Batch(r)) = 2
        /\ ~Batch(r)[1].parses
        /\ ~Fails(Batch(r)[2])
        /\ Stored(kubeconfig, "contexts") = <<2>>
        /\ Len(MergedErrors(r)) = 1

(***************************************************************************)
(* C16, as claimed: a request for a recognized operation, with a readable  *)
(* catalog, whose batch holds a payload that is stored whole and a payload *)
(* that does not parse, has its handler launched.                          *)
(***************************************************************************)
C16_AsClaimed ==
    \A r \in DOMAIN requests :
        ( /\ \E i \in DOMAIN Batch(r) : ~Fails(Batch(r)[i])
          /\ \E i \in DOMAIN Batch(r) : ~Batch(r)[i].parses
          /\ catalog.readable
          /\ ClassOf(r) # "default" ) => Launched(r)

(***************************************************************************)
(* C17: the list CreateKubeconfigs hands to mergeErrors holds one error    *)
(* for each payload that failed, in the order of the batch: the j-th error *)
(* is the error of the j-th failing payload, a parse error or the error of *)
(* the object that could not be stored.                                    *)
(***************************************************************************)
\* the positions of the failing payloads of a batch, in input order
FailingPayloads(batch) ==
    LET Failing(i) == Fails(batch[i])
    IN  SelectSeq([i \in 1..Len(batch) |-> i], Failing)

C17_EverySubErrorKept ==
    \A r \in DOMAIN requests :
        LET failing == FailingPayloads(Batch(r))
            errs == MergedErrors(r)
        IN  /\ Len(errs) = Len(failing)
            /\ \A j \in DOMAIN errs :
                    /\ errs[j][2] = failing[j]
                    /\ errs[j][1] = IF Batch(r)[failing[j]].parses
                                    THEN "ErrSetObject" ELSE "ErrUnmarshal"

\* a batch of two failing payloads, a parse error after a storing error
C17_Witness ==
    \E r \in DOMAIN requests :
        /\ Len(Batch(r)) = 2
        /\ Batch(r)[1].parses /\ Batch(r)[1].failAt = "users"
        /\ ~Batch(r)[2].parses
        /\ Len(MergedErrors(r)) = 2
        /\ MergedErrors(r)[1][1] = "ErrSetObject"
        /\ MergedErrors(r)[2][1] = "ErrUnmarshal"

(***************************************************************************)
(* Vocabulary of the ProcessOAM properties.                                *)
(***************************************************************************)
\* the calls and returns of the trace, without their outcomes
RECURSIVE Shape(_)
Shape(trace) ==
    IF Len(trace) = 0 THEN <<>>
    ELSE <<<<Head(trace).phase, Head(trace).at>>>> \o Shape(Tail(trace))

IsPrefix(s, t) == Len(s) <= Len(t) /\ SubSeq(t, 1, Len(s)) = s

ComponentsFirst ==
    << <<"components", "call">>, <<"components", "return">>,
       <<"configuration", "call">>, <<"configuration", "return">> >>

ConfigurationFirst ==
    << <<"configuration", "call">>, <<"configuration", "return">>,
       <<"components", "call">>, <<"components", "return">> >>

OAMReturned == oam.pc = "returned"
\* ProcessOAM got past CreateKubeconfigs and called its first phase
OAMRanAPhase == Len(oam.trace) > 0
Called(phase) ==
    \E i \in DOMAIN oam.trace : oam.trace[i].phase = phase /\ oam.trace[i].at = "call"

(***************************************************************************)
(* C18: the calls ProcessOAM makes are, on create, components then         *)
(* configuration and, on delete, configuration then components; a phase    *)
(* is called only after the one before it has returned, so the two never   *)
(* overlap and never run in the other order.                               *)
(***************************************************************************)
C18_PhaseOrder ==
    /\ ~oam.req.DeleteOp => IsPrefix(Shape(oam.trace), ComponentsFirst)
    /\ oam.req.DeleteOp => IsPrefix(Shape(oam.trace), ConfigurationFirst)

\* a delete request whose two phases both ran
C18_Witness ==
    /\ OAMReturned
    /\ oam.req.DeleteOp
    /\ Len(oam.trace) = 4
    /\ oam.trace[1].phase = "configuration"
    /\ oam.trace[3].phase = "components"

(***************************************************************************)
(* C19, as claimed: on create, a call of ProcessOAM that ran the           *)
(* components phase has also run the configuration phase when it returns,  *)
(* and the message it returns is M1, a newline, M2.                        *)
(***************************************************************************)
C19_AsClaimed ==
    (OAMReturned /\ OAMRanAPhase /\ ~oam.req.DeleteOp) =>
        /\ Called("configuration")
        /\ oam.msg = <<"M1", "\n", "M2">>

(***************************************************************************)
(* C19, as the code has it: on create, the components phase is called      *)
(* with the components that parsed, the others being skipped; if it        *)
(* returns an error ProcessOAM returns M1 alone with that error and the    *)
(* configuration is not processed; if it returns no error the              *)
(* configuration is processed next and the message is M1, newline, M2.     *)
(***************************************************************************)
C19_ConfigurationAfterComponentsSucceed ==
    (OAMRanAPhase /\ ~oam.req.DeleteOp) =>
        /\ \A i \in DOMAIN oam.req.OamComps :
                oam.req.OamComps[i] <=> (\E j \in DOMAIN oam.comps : oam.comps[j] = i)
        /\ \A j \in DOMAIN oam.comps : j > 1 => oam.comps[j - 1] < oam.comps[j]
        /\ oam.trace[1].phase = "components"
        /\ Len(oam.trace) >= 2 =>
              IF oam.trace[2].ok
              THEN /\ Len(oam.trace) >= 3
                   /\ oam.trace[3].phase = "configuration" /\ oam.trace[3].at = "call"
                   /\ OAMReturned => oam.msg = <<"M1", "\n", "M2">>
              ELSE /\ OAMReturned
                   /\ Len(oam.trace) = 2
                   /\ oam.msg = <<"M1">>
                   /\ oam.err[1] = "ErrProcessOAM"
                   /\ oam.err[2] = ErrHandleComponents

\* a create request with a component that does not parse and one that does,
\* whose components phase returned an error
C19_Witness ==
    /\ OAMReturned
    /\ ~oam.req.DeleteOp
    /\ Len(oam.req.OamComps) = 2
    /\ Len(oam.comps) = 1
    /\ Len(oam.trace) = 2
    /\ ~oam.trace[2].ok
    /\ oam.msg = <<"M1">>

(***************************************************************************)
(* C20, as claimed: whenever ProcessOAM returns after running a phase, its *)
(* message is M1, newline, M2, whatever the delete flag; on create a       *)
(* configuration failure is returned with that message and nothing is      *)
(* called to undo the components phase.                                    *)
(***************************************************************************)
C20_AsClaimed ==
    (OAMReturned /\ OAMRanAPhase) =>
        /\ oam.msg = <<"M1", "\n", "M2">>
        /\ (~oam.req.DeleteOp /\ Len(oam.trace) = 4 /\ ~oam.trace[4].ok) =>
                /\ oam.err[1] = "ErrProcessOAM"
                /\ oam.err[2] = ErrHandleApplicationConfiguration

(***************************************************************************)
(* C20, as the code has it: when both phases ran the message is M1,        *)
(* newline, M2, whatever the delete flag and whether or not the second     *)
(* phase failed; when the first phase failed the message is that phase's   *)
(* message alone (M1 on create, M2 on delete).  On create a configuration  *)
(* failure is returned with M1, newline, M2 and nothing is called after it *)
(* to undo the components phase.                                           *)
(***************************************************************************)
C20_MessageShape ==
    (OAMReturned /\ OAMRanAPhase) =>
        /\ Len(oam.trace) = 4 => oam.msg = <<"M1", "\n", "M2">>
        /\ Len(oam.trace) = 2 =>
                oam.msg = IF oam.req.DeleteOp THEN <<"M2">> ELSE <<"M1">>
        /\ Len(oam.trace) \in {2, 4}
        /\ (~oam.req.DeleteOp /\ Len(oam.trace) = 4 /\ ~oam.trace[4].ok) =>
                /\ oam.err[1] = "ErrProcessOAM"
                /\ oam.err[2] = ErrHandleApplicationConfiguration
                /\ oam.trace[2].ok

\* a create request whose components phase succeeded and whose configuration
\* phase failed
C20_Witness ==
    /\ OAMReturned
    /\ ~oam.req.DeleteOp
    /\ Len(oam.trace) = 4
    /\ oam.trace[2].ok
    /\ ~oam.trace[4].ok
    /\ oam.msg = <<"M1", "\n", "M2">>
    /\ IsError(oam.err)

(***************************************************************************)
(* C21, as claimed: on delete, when the configuration phase has failed,    *)
(* ProcessOAM reports the failure and the components phase has run.        *)
(***************************************************************************)
ConfigurationFailedOnDelete ==
    /\ oam.req.DeleteOp
    /\ Len(oam.trace) >= 2
    /\ oam.trace[2].phase = "configuration"
    /\ oam.trace[2].at = "return"
    /\ ~oam.trace[2].ok

C21_AsClaimed ==
    (OAMReturned /\ ConfigurationFailedOnDelete) =>
        /\ IsError(oam.err)
        /\ Called("components")

(***************************************************************************)
(* C21, as the code has it: on delete the configuration is processed       *)
(* first; when it fails ProcessOAM returns at once with that failure and   *)
(* the configuration's message alone, and the components phase is never    *)
(* called.  The components phase runs only after a configuration phase     *)
(* that returned no error.                                                 *)
(***************************************************************************)
C21_DeleteStopsAtConfigurationFailure ==
    /\ ConfigurationFailedOnDelete =>
        /\ OAMReturned
        /\ oam.err[1] = "ErrProcessOAM"
        /\ oam.err[2] = ErrHandleApplicationConfiguration
        /\ oam.msg = <<"M2">>
        /\ ~Called("components")
    /\ (oam.req.DeleteOp /\ Called("components")) => oam.trace[2].ok

\* a delete request whose configuration phase failed
C21_Witness ==
    /\ OAMReturned
    /\ ConfigurationFailedOnDelete
    /\ Len(oam.comps) >= 1
    /\ Len(oam.trace) = 2

(***************************************************************************)
(* C22: a component that does not parse is skipped and the call goes on.   *)
(* Whatever the components of a request whose kubeconfigs were ingested,   *)
(* the first phase is called; the components phase is handed exactly the   *)
(* components that parsed, in input order (N-1 of them when one of N does  *)
(* not parse), and the configuration phase is handed no component.         *)
(***************************************************************************)
C22_MalformedComponentSkipped ==
    /\ (oam.pc # "idle" /\ \A i \in DOMAIN oam.req.K8sConfigs : ~Fails(oam.req.K8sConfigs[i]))
            => OAMRanAPhase
    /\ \A t \in DOMAIN oam.trace :
        /\ (oam.trace[t].phase = "components" /\ oam.trace[t].at = "call") =>
            LET handed == oam.trace[t].comps
                given == oam.req.OamComps
            IN  /\ \A i \in DOMAIN given :
                        given[i] <=> (\E j \in DOMAIN handed : handed[j] = i)
                /\ \A j \in DOMAIN handed : j > 1 => handed[j - 1] < handed[j]
                /\ Cardinality({i \in DOMAIN given : ~given[i]}) = 1
                        => Len(handed) = Len(given) - 1
        /\ oam.trace[t].phase = "configuration" => Len(oam.trace[t].comps) = 0

\* two components, the first of which does not parse: the components phase
\* was handed the second alone
C22_Witness ==
    /\ Len(oam.req.OamComps) = 2
    /\ ~oam.req.OamComps[1]
    /\ oam.req.OamComps[2]
    /\ \E t \in DOMAIN oam.trace :
        /\ oam.trace[t].phase = "components"
        /\ oam.trace[t].at = "call"
        /\ Len(oam.trace[t].comps) = 1
        /\ oam.trace[t].comps[1] = 2

(***************************************************************************)
(* C23, as claimed: the credential set of a request is its own.  Once      *)
(* CreateKubeconfigs has returned for a request, every key the request     *)
(* wrote holds the request's own value, whatever other calls of            *)
(* ApplyOperation do meanwhile.                                            *)
(***************************************************************************)
Ingested(r) == dispatch[r].pc # "ingesting"

C23_AsClaimed ==
    \A r \in DOMAIN requests :
        Ingested(r) =>
            \A k \in DOMAIN AllKeys :
                Len(Writers(r, AllKeys[k])) > 0
                    => StoredBy(kubeconfig, AllKeys[k]) = <<r>>

(***************************************************************************)
(* C24, as claimed: each dispatched non-streaming operation has one        *)
(* handler and one record of its own.  Once the handlers of all the        *)
(* requests dispatched have ended, the sink holds exactly one record for   *)
(* each request, as many records as requests, and every record carries     *)
(* the operation id of the request whose handler published it.             *)
(***************************************************************************)
AllEnded == \A r \in DOMAIN requests : Launched(r) /\ Ended(r)

C24_AsClaimed ==
    /\ \A i \in DOMAIN sink : sink[i].event.OperationId = sink[i].by
    /\ \A r \in DOMAIN requests : Len(RecordsOf(r)) <= 1
    /\ AllEnded =>
        /\ Len(sink) = Len(requests)
        /\ \A r \in DOMAIN requests : Len(RecordsOf(r)) = 1

(***************************************************************************)
(* C25, as claimed: every record in the sink, whether a handler's terminal *)
(* record, the record of an invalid operation or a record forwarded by the *)
(* verification consumer, carries the operation id of the request that     *)
(* caused it.                                                              *)
(***************************************************************************)
C25_AsClaimed ==
    \A i \in DOMAIN sink :
        sink[i].event.OperationId = requests[sink[i].by].OperationID

(***************************************************************************)
(* C26: the terminal record of a non-streaming handler.  When the handler  *)
(* failed (its collaborator returned an error, or the control-plane        *)
(* handler found no version) the record is of type ERROR, its details are  *)
(* the error's text and its code, probable cause and remediation are those *)
(* of the error; when the collaborator succeeded the record is of type     *)
(* INFO and its code, probable cause and remediation are empty.            *)
(***************************************************************************)
\* the error request r's handler failed with
FailureOf(r) ==
    IF NoVersions(r) THEN ErrFetchIstioVersions ELSE ErrCollaborator(calls[r].fn)

HandlerFailed(r) ==
    /\ NonStreaming(r)
    /\ task[r] = "done"
    /\ NoVersions(r) \/ calls[r].result = "failed"

HandlerSucceeded(r) == NonStreaming(r) /\ task[r] = "done" /\ calls[r].result = "ok"

C26_TerminalRecordEnvelope ==
    \A r \in DOMAIN requests :
        /\ HandlerFailed(r) =>
            /\ Len(RecordsOf(r)) = 1
            /\ RecordsOf(r)[1].EventType = "ERROR"
            /\ RecordsOf(r)[1].Details = ErrorText(FailureOf(r))
            /\ RecordsOf(r)[1].ErrorCode = GetCode(FailureOf(r))
            /\ RecordsOf(r)[1].ProbableCause = GetCause(FailureOf(r))
            /\ RecordsOf(r)[1].SuggestedRemediation = GetRemedy(FailureOf(r))
        /\ HandlerSucceeded(r) =>
            /\ Len(RecordsOf(r)) = 1
            /\ RecordsOf(r)[1].EventType = "INFO"
            /\ RecordsOf(r)[1].ErrorCode = NoText
            /\ RecordsOf(r)[1].ProbableCause = NoText
            /\ RecordsOf(r)[1].SuggestedRemediation = NoText

\* the add-on handler's collaborator failed and its record is in the sink
C26_Witness ==
    \E r \in DOMAIN requests :
        /\ ClassOf(r) = "addon"
        /\ HandlerFailed(r)
        /\ Len(RecordsOf(r)) = 1
        /\ RecordsOf(r)[1].ErrorCode = GetCode(ErrCollaborator("installAddon"))

(***************************************************************************)
(* C27: the verification consumer classifies each record by the type the   *)
(* record itself declares.  The i-th record it streams is the i-th record  *)
(* the producer sent: declared ERROR, it is streamed as ERROR together     *)
(* with ErrIstioVet of its details; declared WARN, as WARN with            *)
(* ErrIstioVet of its details; declared anything else, as INFO with no     *)
(* error.                                                                  *)
(***************************************************************************)
\* the entries of the sink that request r's consumer or handler streamed
StreamedBy(r) ==
    LET ByR(x) == x.by = r
    IN  SelectSeq(sink, ByR)

C27_ClassifiedByDeclaredType ==
    \A r \in DOMAIN requests :
        (ClassOf(r) = "vet" /\ Launched(r)) =>
            \A i \in DOMAIN StreamedBy(r) :
                LET sent == feeds[r].produced[i]
                    out == StreamedBy(r)[i]
                IN  /\ out.event.Details = sent.Details
                    /\ sent.EventType = "ERROR" =>
                        /\ out.event.EventType = "ERROR"
                        /\ Len(out.with) = 2
                        /\ out.with[1] = "ErrIstioVet" /\ out.with[2] = sent.Details
                    /\ sent.EventType = "WARN" =>
                        /\ out.event.EventType = "WARN"
                        /\ Len(out.with) = 2
                        /\ out.with[1] = "ErrIstioVet" /\ out.with[2] = sent.Details
                    /\ sent.EventType \notin {"ERROR", "WARN"} =>
                        /\ out.event.EventType = "INFO"
                        /\ Len(out.with) = 0

\* a warning, an error and a record of a type the loop does not name have
\* been streamed
C27_Witness ==
    \E r \in DOMAIN requests :
        /\ ClassOf(r) = "vet"
        /\ Len(StreamedBy(r)) = 3
        /\ feeds[r].produced[1].EventType = "WARN"
        /\ feeds[r].produced[2].EventType = "ERROR"
        /\ feeds[r].produced[3].EventType = "DEBUG"
        /\ StreamedBy(r)[3].event.EventType = "INFO"

(***************************************************************************)
(* C28, as claimed: the record ApplyOperation builds before the switch,    *)
(* which an unrecognized operation gets published as it was built, has the *)
(* summary "not supported" and the request's operation id.                 *)
(***************************************************************************)
InitialRecordPublished(r) ==
    PreChecksPassed(r) /\ ClassOf(r) = "default" /\ Len(RecordsOf(r)) = 1

MeshSucceeded(r) == ClassOf(r) = "mesh" /\ HandlerSucceeded(r)

\* the version installIstio was called with, read off the request and the catalog
Effective(r) ==
    IF \E i \in DOMAIN catalog.versions : catalog.versions[i] = requests[r].Version
    THEN requests[r].Version
    ELSE catalog.versions[Len(catalog.versions)]

\* no version requested, versions 1.1 and 1.2 listed, an installation
ScenarioLatestOfTwo(r) ==
    /\ requests[r].Version = 0
    /\ catalog.versions = <<1, 2>>
    /\ ~requests[r].IsDeleteOperation

C29_SuccessSummary ==
    \A r \in DOMAIN requests :
        MeshSucceeded(r) =>
            /\ Len(RecordsOf(r)) = 1
            /\ Len(RecordsOf(r)[1].Summary) = 4
            /\ RecordsOf(r)[1].Summary[1] = "Istio service mesh"
            /\ RecordsOf(r)[1].Summary[2] = Effective(r)
            /\ RecordsOf(r)[1].Summary[3] =
                    CollaboratorResult("installIstio", calls[r].del, TRUE).stat
            /\ RecordsOf(r)[1].Summary[4] = "successfully"
            /\ ScenarioLatestOfTwo(r) =>
                    /\ RecordsOf(r)[1].Summary[2] = 2
                    /\ RecordsOf(r)[1].Summary[3] = "installed"

\* the scenario of the claim has happened
C29_Witness ==
    \E r \in DOMAIN requests :
        /\ MeshSucceeded(r)
        /\ ScenarioLatestOfTwo(r)
        /\ RecordsOf(r)[1].Summary[2] = 2

(***************************************************************************)
(* C30: when GetObject fails to load the catalog (the kubeconfigs having   *)
(* been ingested without error), ApplyOperation returns ErrGetObject to    *)
(* its caller, has launched no handler and has published no record, and    *)
(* every write CreateKubeconfigs made before is still in the handler: each *)
(* key holds the value of the batch's last payload.                        *)
(***************************************************************************)
CatalogLoadFailed(r) == ~KubeconfigsFailed(r) /\ ~catalog.readable

C30_CatalogLoadFailure ==
    \A r \in DOMAIN requests :
        CatalogLoadFailed(r) =>
            /\ dispatch[r].pc = "returned"
            /\ dispatch[r].err = ErrGetObject
            /\ ~Launched(r)
            /\ task[r] = "none"
            /\ Len(RecordsOf(r)) = 0
            /\ \A i \in DOMAIN Batch(r) : KeysWritten(r, i) = AllKeys
            /\ Len(Batch(r)) > 0 =>
                    \A k \in DOMAIN AllKeys :
                        Stored(kubeconfig, AllKeys[k]) = <<Len(Batch(r))>>

\* a call with kubeconfigs to ingest has returned the catalog's load failure
C30_Witness ==
    \E r \in DOMAIN requests :
        /\ CatalogLoadFailed(r)
        /\ Len(Batch(r)) = 2
        /\ dispatch[r].err = ErrGetObject
        /\ Len(kubeconfig) = 2 * Len(AllKeys)

(***************************************************************************)
(* C31: no step of ApplyOperation or of a handler it launched changes the  *)
(* stored catalog or a request already received: opReq and operations are  *)
(* only read, from the entry of ApplyOperation to the last record.         *)
(***************************************************************************)
RequestsKept == \A r \in DOMAIN requests : requests'[r] = requests[r]

C31_RequestAndCatalogUnchanged == [][catalog' = catalog /\ RequestsKept]_vars

\* a control-plane handler chose a version the request did not name, and has
\* published its record; the request still names no version
C31_Witness ==
    \E r \in DOMAIN requests :
        /\ ClassOf(r) = "mesh"
        /\ task[r] = "done"
        /\ Len(RecordsOf(r)) = 1
        /\ requests[r].Version = 0
        /\ calls[r].version = 2

(***************************************************************************)
(* C32: for the verification operation the record built before the switch  *)
(* is never published and the consumer publishes nothing of its own: the   *)
(* records of the request in the sink are, one for one, the records the    *)
(* consumer has taken from the channel.  When the producer closed the      *)
(* channel without sending, the request has no record at all.              *)
(***************************************************************************)
\* how many records the consumer of r has taken from the channel
Taken(r) == Len(feeds[r].produced) - Len(feeds[r].chan)

C32_OnlyFeedRecords ==
    \A r \in DOMAIN requests :
        (ClassOf(r) = "vet" /\ PreChecksPassed(r)) =>
            /\ ~Launched(r) => Len(RecordsOf(r)) = 0
            /\ Launched(r) =>
                /\ Len(RecordsOf(r)) = Taken(r)
                /\ \A i \in DOMAIN RecordsOf(r) :
                    /\ RecordsOf(r)[i].Summary # InitialEvent(requests[r]).Summary
                    /\ RecordsOf(r)[i].Summary = feeds[r].produced[i].Summary
                    /\ RecordsOf(r)[i].Details = feeds[r].produced[i].Details
                /\ (VetEnded(r) /\ Len(feeds[r].produced) = 0) => Len(RecordsOf(r)) = 0

\* the producer closed the channel without sending and the consumer has ended
C32_Witness ==
    \E r \in DOMAIN requests :
        /\ VetEnded(r)
        /\ feeds[r].closed
        /\ Len(feeds[r].produced) = 0
        /\ Len(sink) = 0

(***************************************************************************)
(* C33: when CreateKubeconfigs fails inside ProcessOAM, ProcessOAM has     *)
(* returned the empty message and the error CreateKubeconfigs gave it, and *)
(* has called neither HandleComponents nor HandleApplicationConfiguration. *)
(***************************************************************************)
OAMKubeconfigsFailed ==
    oam.pc # "idle" /\ IsError(CreateKubeconfigs(oam.req.K8sConfigs).err)

C33_OAMKubeconfigFailure ==
    OAMKubeconfigsFailed =>
        /\ OAMReturned
        /\ Len(oam.msg) = 0
        /\ IsError(oam.err)
        /\ oam.err = CreateKubeconfigs(oam.req.K8sConfigs).err
        /\ Len(oam.trace) = 0
        /\ ~Called("components")
        /\ ~Called("configuration")

\* a request with components and a configuration that parse, and a payload
\* that does not: ProcessOAM has returned without calling a phase
C33_Witness ==
    /\ OAMKubeconfigsFailed
    /\ OAMReturned
    /\ Len(oam.req.OamComps) > 0
    /\ oam.req.OamComps[1]
    /\ oam.req.OamConfig
    /\ \E i \in DOMAIN oam.req.K8sConfigs : ~oam.req.K8sConfigs[i].parses

(***************************************************************************)
(* C34: a configuration that does not parse stops nothing in ProcessOAM.   *)
(* The first phase is called all the same; HandleApplicationConfiguration  *)
(* is called where it always is (first on delete; on create after the      *)
(* components phase returned without error) and is handed the zero         *)
(* configuration; and ProcessOAM returns an error only when a phase        *)
(* returned one.                                                           *)
(***************************************************************************)
ConfigurationUnparsed ==
    /\ oam.pc # "idle"
    /\ ~IsError(CreateKubeconfigs(oam.req.K8sConfigs).err)
    /\ ~oam.req.OamConfig

\* the position of the call of HandleApplicationConfiguration in the trace
ConfigurationCallAt == IF oam.req.DeleteOp THEN 1 ELSE 3

APhaseFailed == \E t \in DOMAIN oam.trace : oam.trace[t].at = "return" /\ ~oam.trace[t].ok

FailsPartWay(p) == p.parses /\ p.failAt # "none"

\* the place of key among the keys CreateKubeconfigs writes, in order
PlaceOf(key) == CHOOSE k \in DOMAIN AllKeys : AllKeys[k] = key

ErrorsFor(r, i) == {j \in DOMAIN MergedErrors(r) : MergedErrors(r)[j][2] = i}

C35_PartialMergeKept ==
    \A r \in DOMAIN requests :
        \A i \in DOMAIN Batch(r) :
            FailsPartWay(Batch(r)[i]) =>
                LET failing == PlaceOf(Batch(r)[i].failAt)
                IN  /\ failing > 3
                    /\ KeysWritten(r, i) = SubSeq(AllKeys, 1, failing - 1)
                    /\ \A k \in DOMAIN AllKeys :
                            k > failing =>
                                \A n \in DOMAIN KeysWritten(r, i) :
                                    KeysWritten(r, i)[n] # AllKeys[k]
                    /\ Cardinality(ErrorsFor(r, i)) = 1
                    /\ \A j \in ErrorsFor(r, i) : MergedErrors(r)[j][1] = "ErrSetObject"
                    /\ i = Len(Batch(r)) =>
                            \A k \in 1..(failing - 1) :
                                Stored(kubeconfig, AllKeys[k]) = <<i>>
                    /\ (i < Len(Batch(r)) /\ ~Fails(Batch(r)[i + 1])) =>
                            KeysWritten(r, i + 1) = AllKeys
                    /\ (i < Len(Batch(r)) /\ Fails(Batch(r)[i + 1])) =>
                            Cardinality(ErrorsFor(r, i + 1)) = 1

\* a payload whose SetObject("users") fails, followed by a payload that is
\* stored whole
C35_Witness ==
    \E r \in DOMAIN requests :
        /\ Len(Batch(r)) = 2
        /\ FailsPartWay(Batch(r)[1])
        /\ ~Fails(Batch(r)[2])
        /\ Len(KeysWritten(r, 1)) = 5
        /\ KeysWritten(r, 2) = AllKeys
        /\ Len(MergedErrors(r)) = 1

(***************************************************************************)
(* C36: responseChan never holds more than one record.  While it holds     *)
(* one, RunVet cannot send: it goes on only after the loop has taken the   *)
(* record.  So of the records RunVet has sent, at most two are not yet in  *)
(* the sink: one in the channel and one the loop has taken and is about to *)
(* stream.                                                                 *)
(***************************************************************************)
\* the records RunVet has sent that the sink does not hold yet
Ahead(r) == Len(feeds[r].produced) - Len(RecordsOf(r))

C36_AtMostOneUnconsumed ==
    \A r \in DOMAIN requests :
        (Launched(r) /\ ClassOf(r) = "vet") =>
            /\ Len(feeds[r].chan) <= 1
            /\ Len(feeds[r].hand) <= 1
            /\ Ahead(r) = Len(feeds[r].chan) + Len(feeds[r].hand)
            /\ Ahead(r) <= 2
            /\ Len(feeds[r].chan) = 1 =>
                    /\ \A type \in EventTypes : ~ENABLED VetSend(r, type)
                    /\ VetRunning(r) => ENABLED VetTake(r) \/ ENABLED VetStream(r)

\* RunVet is two records ahead: one in the channel, one in the loop's hand
C36_Witness ==
    \E r \in DOMAIN requests :
        /\ VetRunning(r)
        /\ Len(feeds[r].chan) = 1
        /\ Len(feeds[r].hand) = 1
        /\ Len(feeds[r].produced) = 3
        /\ Len(RecordsOf(r)) = 1

=============================================================================
